---- MODULE Spec2Model ----
(***************************************************************************)
(* Signal-Alert: the scan cycle of the three indicator scanners            *)
(* (Commodity_Signal_Bot.py, Forex_Signal_Bot.py, Stock_signal_Bot.py)     *)
(* and the runs of the signal scraper (Free_Forex_Signal.py).              *)
(*                                                                         *)
(* One behaviour is one scan cycle of one scanner: the instruments of the  *)
(* universe are evaluated in list order, the candidates are pooled, the    *)
(* pool is ranked and the selection is delivered.                          *)
(*                                                                         *)
(* Numbers.  Prices and the ATR are integers in thousandths (1.105 is      *)
(* 1105).  ADX, RSI and CMO are integers.  The Forex confidence, whose     *)
(* terms are multiples of 0.5 on these inputs, is summed in halves and     *)
(* truncated the way int() truncates.  A frame is its row count, its last  *)
(* row and (Forex) its previous row; the indicator libraries (talib,       *)
(* pandas_ta, ta) are outside the repository and their values are inputs.  *)
(***************************************************************************)
EXTENDS Integers, Sequences, FiniteSets, TLC

\* bot .. cur: the scan cycle; net: the provider requests of the instrument
\* being scanned; call: one call of a function, its arguments and results;
\* history .. new_signals: the scraper -- the history file, the clock in
\* hours, the number of the run, and two locals of main
VARIABLES bot, pc, idx, signals, top, sent, cur, net, call, history, utcnow, run, previous_signals, new_signals

vars == <<bot, pc, idx, signals, top, sent, cur, net, call, history, utcnow, run, previous_signals, new_signals>>

----------------------------------------------------------------------------
(* Bounds of the model *)

\* instruments scanned per cycle (a prefix of each scanner's list)
MaxUniverse == 4
\* how many of them come from the Binance group in the Commodity scanner
MaxCrypto == 2
\* runs of the scraper
MaxRuns == 3
\* signals on the scraped page
MaxMatches == 2

----------------------------------------------------------------------------
(* Program constants *)

TOP_SIGNALS == 3
CONFIDENCE_BOOST == 10
ConfidenceFloor == 50
MinBars == 50
VolMaWindow == 50
EMA_SLOW == 200
ADX_THRESHOLD == 20
OUTPUT_SIZE == 200

CRYPTO == <<"ETHUSDT", "BTCUSDT", "ADAUSDT", "BNBUSDT">>
YAHOO_SYMBOLS == <<"Gold", "Silver", "Microsoft">>
FOREX_PAIRS == <<"EUR/USD", "USD/JPY", "GBP/USD", "AUD/USD", "USD/CAD",
                 "USD/CHF", "NZD/USD", "EUR/JPY", "GBP/JPY", "EUR/GBP">>
PAIRS == <<"SB=F", "SI=F", "HG=F", "NG=F", "ZC=F", "LMT", "META", "TSLA",
           "AMZN", "NVDA", "IWM", "^RUT", "DIA", "QQQ", "ADAUSDT", "BNBUSDT">>

\* ASSET_PARAMS[asset]["volume_filter"], in tenths
volume_filter10(asset) ==
    CASE asset = "ETHUSDT" -> 18
      [] asset = "BTCUSDT" -> 15
      [] asset = "ADAUSDT" -> 20
      [] asset = "BNBUSDT" -> 17
      [] asset = "Gold" -> 13
      [] asset = "Silver" -> 14
      [] asset = "Microsoft" -> 12
      [] OTHER -> 0

----------------------------------------------------------------------------
(* Generic helpers *)

Min(a, b) == IF a < b THEN a ELSE b
Max(a, b) == IF a > b THEN a ELSE b

Take(s, n) == SubSeq(s, 1, Min(n, Len(s)))

\* a Python bool summed as an int
Count(b) == IF b THEN 1 ELSE 0

\* the value Python's None stands for, per kind of object
NoRows == -1
NotRequested == -2
NaN == -999999

\* comparisons of floats one of which may be NaN: every comparison is False
Gt(a, b) == a # NaN /\ b # NaN /\ a > b
Lt(a, b) == a # NaN /\ b # NaN /\ a < b

Nil == [type |-> "NONE", direction |-> "NONE", confidence |-> 0]

IsSignal(s) == s.type # "NONE"

Signal(t, d, c) == [type |-> t, direction |-> d, confidence |-> c]

\* a pool entry: the candidate with the instrument it belongs to
Entry(inst, s) ==
    [inst |-> inst, type |-> s.type, direction |-> s.direction,
     confidence |-> s.confidence]

\* the sort without reverse=True: insertion into a non-decreasing list
RECURSIVE InsertAsc(_, _)
InsertAsc(x, s) ==
    IF s = <<>> THEN <<x>>
    ELSE IF Head(s).confidence <= x.confidence
         THEN <<Head(s)>> \o InsertAsc(x, Tail(s))
         ELSE <<x>> \o s

\* a sort that puts a later element before the earlier ones of equal confidence
RECURSIVE InsertDescUnstable(_, _)
InsertDescUnstable(x, s) ==
    IF s = <<>> THEN <<x>>
    ELSE IF Head(s).confidence > x.confidence
         THEN <<Head(s)>> \o InsertDescUnstable(x, Tail(s))
         ELSE <<x>> \o s

\* list.sort(key=confidence, reverse=True): stable insertion of x into a list
\* already in non-increasing order, after the elements of equal confidence
RECURSIVE InsertDesc(_, _)
InsertDesc(x, s) ==
    IF s = <<>> THEN <<x>>
    ELSE IF Head(s).confidence >= x.confidence
         THEN <<Head(s)>> \o InsertDesc(x, Tail(s))
         ELSE <<x>> \o s

RECURSIVE SortDesc(_)
SortDesc(s) ==
    IF s = <<>> THEN <<>>
    ELSE LET n == Len(s)
         IN  InsertDesc(s[n], SortDesc(SubSeq(s, 1, n - 1)))

\* heapq.nlargest(n, s, key=confidence): the n largest by (confidence, -position),
\* largest first; each round picks the best remaining position
RECURSIVE PickLargest(_, _, _)
PickLargest(n, s, left) ==
    IF n = 0 \/ left = {} THEN <<>>
    ELSE LET best == CHOOSE i \in left :
                        \A j \in left :
                            \/ s[i].confidence > s[j].confidence
                            \/ s[i].confidence = s[j].confidence /\ i <= j
         IN  <<s[best]>> \o PickLargest(n - 1, s, left \ {best})

nlargest(n, s) == PickLargest(n, s, DOMAIN s)

----------------------------------------------------------------------------
(* The record of the evaluation of one instrument (history of the step)    *)

\* raw, post: rows fetched / rows left by the indicator pipeline (NoRows:
\* None or not reached); invoked: the classifier was called on the primary
\* frame; classified: it evaluated its rules; scored: a confidence was
\* computed; conf*: the same for the confirmation timeframe (NotRequested:
\* no request was made); signal, reversal: what the classifiers returned;
\* band: the reversal condition the last primary row meets (Forex); bonus:
\* the confirmation bonus; added: candidates appended to the pool;
\* faultsBefore: an earlier instrument of this cycle was skipped for want of
\* a usable frame.
Eval(inst, raw, post, invoked, classified, scored, confRaw, confPost, confInvoked, signal, reversal, band, bonus, added) ==
    [inst |-> inst, raw |-> raw, post |-> post, invoked |-> invoked,
     classified |-> classified, scored |-> scored, confRaw |-> confRaw,
     confPost |-> confPost, confInvoked |-> confInvoked, signal |-> signal,
     reversal |-> reversal, band |-> band, bonus |-> bonus, added |-> added,
     faultsBefore |-> FALSE]

\* the instrument was skipped before any classifier was called
Skipped(inst, raw, post) ==
    Eval(inst, raw, post, FALSE, FALSE, FALSE, NotRequested, NoRows, FALSE,
         Nil, Nil, "NONE", 0, 0)

\* the evaluation ended without a frame to classify: provider error, empty
\* or short history, failed or undefined indicators
Failed(e) == e.raw # NotRequested /\ ~e.invoked

NoEval == Skipped("", NotRequested, NoRows)

\* no request issued yet
NoNet == [primary |-> 0, confirmation |-> 0, retried |-> 0]

\* no call
NoCall == [fn |-> "none", done |-> FALSE]

\* a dict without keys
EmptyDict == [k \in {} |-> 0]

\* the scraper is not running: no history file, no locals
NoScraper ==
    /\ history = EmptyDict
    /\ utcnow = 0
    /\ run = 0
    /\ previous_signals = EmptyDict
    /\ new_signals = <<>>

----------------------------------------------------------------------------
(* Commodity_Signal_Bot.py *)

\* df.dropna() after the indicators: the rolling(50) volume mean leaves its
\* first 49 rows undefined; a column undefined on every row (zero volume
\* makes vol_ratio 0/0) leaves nothing
CommodityDropna(rows, allNaN) ==
    IF allNaN THEN 0 ELSE rows - (VolMaWindow - 1)

\* returns the row count of the frame, NoRows for None
calculate_technical_indicators(rows, fault, allNaN) ==
    IF rows = NoRows \/ rows < MinBars THEN NoRows
    ELSE IF fault THEN NoRows
    ELSE CommodityDropna(rows, allNaN)

\* a base confidence to which momentum always adds
base_confidence_unsigned(row, asset) ==
    LET vol_boost == IF row.vol_ratio10 > volume_filter10(asset) THEN 20 ELSE 0
        adx_boost == IF row.adx > 25 THEN 20 ELSE 0
    IN  30 + vol_boost + adx_boost + 15

base_confidence(row, asset) ==
    LET vol_boost == IF row.vol_ratio10 > volume_filter10(asset) THEN 20 ELSE 0
        adx_boost == IF row.adx > 25 THEN 20 ELSE 0
        momentum_boost == IF row.momentum > 0 THEN 15 ELSE -15
    IN  30 + vol_boost + adx_boost + momentum_boost

long_conditions(row) ==
    row.macd > 0 /\ row.close > row.ema /\ row.rsi > 50 /\ row.momentum > 0

short_conditions(row) ==
    row.macd < 0 /\ row.close < row.ema /\ row.rsi < 50 /\ row.momentum < 0

\* the classifier without its length guard
detect_trading_signal_noguard(rows, row, asset) ==
    IF rows = NoRows THEN Nil
    ELSE IF long_conditions(row)
         THEN Signal("SIGNAL", "long", base_confidence(row, asset))
    ELSE IF short_conditions(row)
         THEN Signal("SIGNAL", "short", base_confidence(row, asset))
    ELSE Nil

detect_trading_signal(rows, row, asset) ==
    IF rows = NoRows \/ rows < 2 THEN Nil
    ELSE IF long_conditions(row)
         THEN Signal("SIGNAL", "long", base_confidence(row, asset))
    ELSE IF short_conditions(row)
         THEN Signal("SIGNAL", "short", base_confidence(row, asset))
    ELSE Nil

\* a confirmation that pays the bonus for any 1h signal, whatever its direction
confirm_with_1h_anydirection(asset, direction, rows1h, fault1h, allNaN1h, row1h) ==
    IF rows1h = NoRows \/ rows1h = 0 THEN 0
    ELSE LET df_1h == calculate_technical_indicators(rows1h, fault1h, allNaN1h)
         IN  IF df_1h = NoRows THEN 0
             ELSE IF IsSignal(detect_trading_signal(df_1h, row1h, asset))
                  THEN CONFIDENCE_BOOST
                  ELSE 0

\* rows1h: what the 1h fetch returned (NoRows: None, the fetchers catch
\* their own exceptions)
confirm_with_1h(asset, direction, rows1h, fault1h, allNaN1h, row1h) ==
    IF rows1h = NoRows \/ rows1h = 0 THEN 0
    ELSE LET df_1h == calculate_technical_indicators(rows1h, fault1h, allNaN1h)
         IN  IF df_1h = NoRows THEN 0
             ELSE LET signal == detect_trading_signal(df_1h, row1h, asset)
                  IN  IF IsSignal(signal) /\ signal.direction = direction
                      THEN CONFIDENCE_BOOST
                      ELSE 0

\* the frame the 1h classifier is called on inside confirm_with_1h
Confirm1hPost(rows1h, fault1h, allNaN1h) ==
    IF rows1h = NoRows \/ rows1h = 0 THEN NoRows
    ELSE calculate_technical_indicators(rows1h, fault1h, allNaN1h)

\* the body of the two loops of scan_assets for one asset: the evaluation
\* record and the pool after it
CommodityBody(asset, pool, rows, fault, allNaN, row, rows1h, fault1h, allNaN1h, row1h) ==
    IF rows = NoRows \/ rows = 0
    THEN [eval |-> Skipped(asset, rows, NoRows), pool |-> pool]
    ELSE
    LET df_4h == calculate_technical_indicators(rows, fault, allNaN) IN
    IF df_4h = NoRows \/ df_4h = 0
    THEN [eval |-> Skipped(asset, rows, df_4h), pool |-> pool]
    ELSE
    LET signal == detect_trading_signal(df_4h, row, asset)
        ran == df_4h >= 2
    IN  IF ~IsSignal(signal)
        THEN [eval |-> Eval(asset, rows, df_4h, TRUE, ran, ran, NotRequested,
                            NoRows, FALSE, Nil, Nil, "NONE", 0, 0),
              pool |-> pool]
        ELSE
        LET bonus == confirm_with_1h(asset, signal.direction, rows1h, fault1h,
                                     allNaN1h, row1h)
            post1h == Confirm1hPost(rows1h, fault1h, allNaN1h)
            confidence == signal.confidence + bonus
            cand == Signal(signal.type, signal.direction, confidence)
            ok == confidence >= ConfidenceFloor
        IN  [eval |-> Eval(asset, rows, df_4h, TRUE, TRUE, TRUE, rows1h, post1h,
                           post1h # NoRows, cand, Nil, "NONE", bonus,
                           IF ok THEN 1 ELSE 0),
             pool |-> IF ok THEN Append(pool, Entry(asset, cand)) ELSE pool]

----------------------------------------------------------------------------
(* Forex_Signal_Bot.py *)

\* the pipeline without its length test
calculate_indicators_nofloor(rows, fault) ==
    IF rows = NoRows THEN NoRows
    ELSE IF fault THEN NoRows
    ELSE rows

\* returns the row count of the frame, NoRows for None; fillna keeps every row
calculate_indicators(rows, fault) ==
    IF rows = NoRows \/ rows < MinBars THEN NoRows
    ELSE IF fault THEN NoRows
    ELSE rows

\* ta.EMA(close, 200) is undefined on the first 199 rows; ffill/bfill leave a
\* column NaN that has no defined value at all
FillEma200(rows, last) ==
    IF rows < EMA_SLOW THEN [last EXCEPT !.ema200 = NaN] ELSE last

\* str.startswith on the strings calculate_confidence is called with:
\* 'TREND FOLLOWING', 'BREAKOUT', 'BREAKDOWN', 'BUY', 'SELL'
StartsWith(signal_type, prefix) == signal_type = prefix

\* int(x) of x = x2 / 2: truncation toward zero
IntOfHalves(x2) == IF x2 >= 0 THEN x2 \div 2 ELSE -((-x2) \div 2)

\* a test that raises whether or not there is a confirmation row
ConfLastTruthStrict(hasConf) == "ValueError"

\* the test `if conf_last is not None:`
ConfLastTruthFixed(hasConf) == IF hasConf THEN "True" ELSE "False"

\* `if conf_last:` -- conf_last is None or a row of the frame (a pandas
\* Series of several values, whose truth value raises ValueError)
ConfLastTruth(hasConf) == IF hasConf THEN "ValueError" ELSE "False"

\* the ADX term without its weight of 1.5
adx_score2_unweighted(primary_last) == Min(60, Max(0, (primary_last.adx - 20) * 2))

\* the scores are in halves of a point
adx_score2(primary_last) == Min(60, Max(0, (primary_last.adx - 20) * 3))

rsi_score2(signal_type, primary_last) ==
    IF signal_type \in {"TREND FOLLOWING", "BREAKOUT"}
    THEN IF StartsWith(signal_type, "BUY")
         THEN Min(50, (40 - Max(primary_last.rsi, 30)) * 5)
         ELSE Min(50, (Min(primary_last.rsi, 70) - 60) * 5)
    ELSE IF signal_type = "BUY"
         THEN Min(50, (35 - primary_last.rsi) * 5)
         ELSE Min(50, (primary_last.rsi - 65) * 5)

ema_score2(primary_last) ==
    IF Gt(primary_last.close, primary_last.ema50)
       /\ Gt(primary_last.ema50, primary_last.ema200)
    THEN 40
    ELSE IF Lt(primary_last.close, primary_last.ema50)
            /\ Lt(primary_last.ema50, primary_last.ema200)
    THEN 40
    ELSE 20

\* min(15, atr * 100) with atr in thousandths: atr * 100 * 2 / 1000
volatility_score2(primary_last) == Min(30, primary_last.atr \div 5)

volatility_part2(signal_type, primary_last) ==
    IF signal_type \in {"TREND FOLLOWING", "BREAKOUT"}
    THEN volatility_score2(primary_last)
    ELSE 30 - volatility_score2(primary_last)

\* x * 1.005 and x * 0.995 compared in thousandths
confirmation_bonus2(signal_type, conf_last) ==
    IF signal_type \in {"TREND FOLLOWING", "BREAKOUT"}
    THEN IF StartsWith(signal_type, "BUY")
            /\ conf_last.close > conf_last.ema50 /\ conf_last.rsi > 40
         THEN 20
         ELSE IF StartsWith(signal_type, "SELL")
                 /\ conf_last.close < conf_last.ema50 /\ conf_last.rsi < 60
         THEN 20
         ELSE 0
    ELSE IF signal_type = "BUY" /\ conf_last.rsi > 30
            /\ conf_last.close * 1000 < conf_last.bb_lower * 1005
         THEN 20
         ELSE IF signal_type = "SELL" /\ conf_last.rsi < 70
                 /\ conf_last.close * 1000 > conf_last.bb_upper * 995
         THEN 20
         ELSE 0

\* the scorer with a confirmation block that tests `conf_last is not None`
calculate_confidence_noraise(signal_type, primary_last, hasConf, conf_last) ==
    LET base2 == adx_score2(primary_last) + rsi_score2(signal_type, primary_last)
                 + ema_score2(primary_last)
                 + volatility_part2(signal_type, primary_last)
        bonus2 == IF hasConf THEN confirmation_bonus2(signal_type, conf_last) ELSE 0
    IN  [raised |-> FALSE, value |-> Min(100, IntOfHalves(base2 + bonus2)),
         bonus |-> bonus2 \div 2]

\* raised: the exception that leaves the function; value: what it returns
calculate_confidence(signal_type, primary_last, hasConf, conf_last) ==
    LET base2 == adx_score2(primary_last) + rsi_score2(signal_type, primary_last)
                 + ema_score2(primary_last)
                 + volatility_part2(signal_type, primary_last)
        truth == ConfLastTruth(hasConf)
        bonus2 == IF truth = "True"
                  THEN confirmation_bonus2(signal_type, conf_last) ELSE 0
    IN  IF truth = "ValueError"
        THEN [raised |-> TRUE, value |-> 0, bonus |-> 0]
        ELSE [raised |-> FALSE, value |-> Min(100, IntOfHalves(base2 + bonus2)),
              bonus |-> bonus2 \div 2]

\* confirmation_df.iloc[-1] if confirmation_df is not None and len > 0
HasConfLast(confRows) == confRows # NoRows /\ confRows > 0

bullish_trend(last) ==
    Gt(last.close, last.ema200) /\ Gt(last.ema50, last.ema200) /\ last.adx > 30

bearish_trend(last) ==
    Lt(last.close, last.ema200) /\ Lt(last.ema50, last.ema200) /\ last.adx > 30

\* the rule that fires in detect_trend_following_signal: its type and direction
TrendRule(last, prev, hasConf, conf_last) ==
    IF bullish_trend(last)
    THEN IF last.close > last.ema50 /\ prev.close < prev.ema50
         THEN Signal("TREND FOLLOWING", "BUY", 0)
         ELSE IF last.close > last.bb_upper /\ hasConf
                 /\ conf_last.close > conf_last.bb_upper
         THEN Signal("BREAKOUT", "BUY", 0)
         ELSE Nil
    ELSE IF bearish_trend(last)
    THEN IF last.close < last.ema50 /\ prev.close > prev.ema50
         THEN Signal("TREND FOLLOWING", "SELL", 0)
         ELSE IF last.close < last.bb_lower /\ hasConf
                 /\ conf_last.close < conf_last.bb_lower
         THEN Signal("BREAKDOWN", "SELL", 0)
         ELSE Nil
    ELSE Nil

detect_trend_following_signal(rows, last, prev, confRows, conf_last) ==
    IF rows = NoRows \/ rows < 3 THEN Nil
    ELSE LET hasConf == HasConfLast(confRows)
             signal == TrendRule(last, prev, hasConf, conf_last)
         IN  IF ~IsSignal(signal) THEN Nil
             ELSE LET c == calculate_confidence(signal.type, last, hasConf, conf_last)
                  IN  IF c.raised THEN Nil
                      ELSE Signal(signal.type, signal.direction, c.value)

buy_condition(last) ==
    last.close <= last.bb_lower /\ last.rsi < 35 /\ last.adx > ADX_THRESHOLD

sell_condition(last) ==
    last.close >= last.bb_upper /\ last.rsi > 65 /\ last.adx > ADX_THRESHOLD

\* the rule that fires in detect_reversal_signal
ReversalRule(last, hasConf, conf_last) ==
    IF buy_condition(last) /\ hasConf /\ conf_last.rsi > 30
    THEN Signal("REVERSAL", "BUY", 0)
    ELSE IF sell_condition(last) /\ hasConf /\ conf_last.rsi < 70
    THEN Signal("REVERSAL", "SELL", 0)
    ELSE Nil

detect_reversal_signal(rows, last, confRows, conf_last) ==
    IF rows = NoRows \/ rows < 2 THEN Nil
    ELSE LET hasConf == HasConfLast(confRows)
             signal == ReversalRule(last, hasConf, conf_last)
         IN  IF ~IsSignal(signal) THEN Nil
             ELSE LET c == calculate_confidence(signal.direction, last, hasConf, conf_last)
                  IN  IF c.raised THEN Nil
                      ELSE Signal(signal.type, signal.direction, c.value)

\* the pool after `if trend_signal: append` and `if reversal_signal: append`
ForexAppend(pair, pool, trend_signal, reversal_signal) ==
    LET p1 == IF IsSignal(trend_signal)
              THEN Append(pool, Entry(pair, trend_signal)) ELSE pool
    IN  IF IsSignal(reversal_signal)
        THEN Append(p1, Entry(pair, reversal_signal)) ELSE p1

\* lines 441-458: the two appends and the record of the evaluation
ForexCollect(pair, pool, rows, primary_df, rowsConf, confirmation_df, trend_signal, reversal_signal, fired, band, bonus) ==
    [eval |-> Eval(pair, rows, primary_df, TRUE, primary_df >= 3, fired,
                   rowsConf, confirmation_df, FALSE, trend_signal,
                   reversal_signal, band, bonus,
                   Count(IsSignal(trend_signal)) + Count(IsSignal(reversal_signal))),
     pool |-> ForexAppend(pair, pool, trend_signal, reversal_signal)]

\* the bonus calculate_confidence added to the candidate that was returned
ForexBonus(last, prev, hasConf, conf_last, trend_signal, reversal_signal) ==
    IF IsSignal(trend_signal)
    THEN calculate_confidence(TrendRule(last, prev, hasConf, conf_last).type,
                              last, hasConf, conf_last).bonus
    ELSE IF IsSignal(reversal_signal)
    THEN calculate_confidence(ReversalRule(last, hasConf, conf_last).direction,
                              last, hasConf, conf_last).bonus
    ELSE 0

\* lines 437-439: both classifiers run on the same primary frame
ForexDetect(pair, pool, rows, primary_df, last, prev, rowsConf, confirmation_df, hasConf, conf_last) ==
    ForexCollect(pair, pool, rows, primary_df, rowsConf, confirmation_df,
        detect_trend_following_signal(primary_df, last, prev, confirmation_df, conf_last),
        detect_reversal_signal(primary_df, last, confirmation_df, conf_last),
        IsSignal(TrendRule(last, prev, hasConf, conf_last))
            \/ IsSignal(ReversalRule(last, hasConf, conf_last)),
        IF buy_condition(last) THEN "BUY"
        ELSE IF sell_condition(last) THEN "SELL" ELSE "NONE",
        ForexBonus(last, prev, hasConf, conf_last,
            detect_trend_following_signal(primary_df, last, prev, confirmation_df, conf_last),
            detect_reversal_signal(primary_df, last, confirmation_df, conf_last)))

\* line 435: the confirmation frame, None unless data came back
ForexConfirmation(rowsConf, faultConf) ==
    IF rowsConf # NoRows /\ rowsConf > 0
    THEN calculate_indicators(rowsConf, faultConf)
    ELSE NoRows

\* the body of the main loop for one pair
ForexBody(pair, pool, rows, fault, last0, prev, rowsConf, faultConf, conf_last) ==
    IF rows = NoRows \/ rows = 0
    THEN [eval |-> Skipped(pair, rows, NoRows), pool |-> pool]
    ELSE IF calculate_indicators(rows, fault) = NoRows
            \/ calculate_indicators(rows, fault) = 0
    THEN [eval |-> Skipped(pair, rows, calculate_indicators(rows, fault)),
          pool |-> pool]
    ELSE ForexDetect(pair, pool, rows, calculate_indicators(rows, fault),
                     FillEma200(calculate_indicators(rows, fault), last0), prev,
                     rowsConf, ForexConfirmation(rowsConf, faultConf),
                     HasConfLast(ForexConfirmation(rowsConf, faultConf)), conf_last)

----------------------------------------------------------------------------
(* Stock_signal_Bot.py *)

\* df.dropna() at the end of add_indicators: Volume_MA50 = rolling(50) leaves
\* its first 49 rows undefined; an empty frame is returned as it is
add_indicators(rows, allNaN) ==
    IF rows = 0 THEN 0
    ELSE IF allNaN THEN 0
    ELSE rows - (VolMaWindow - 1)

supertrend_dir(last) == IF last.close > last.tema_20 THEN 1 ELSE -1

long_score(last) ==
    Count(last.VW_MACD > 0) + Count(supertrend_dir(last) = 1)
    + Count(last.close > last.tema_20) + Count(last.cmo_14 > 0)

short_score(last) ==
    Count(~(last.VW_MACD > 0)) + Count(~(supertrend_dir(last) = 1))
    + Count(~(last.close > last.tema_20)) + Count(~(last.cmo_14 > 0))

\* int((score / 4) * 100)
ScoreConfidence(score) == (score * 100) \div 4

\* the rule block of scan, lines 169-226, on the last row of the frame
StockRule(last) ==
    IF last.ADX < 20 THEN Nil
    ELSE IF long_score(last) >= 3
    THEN Signal("SIGNAL", "LONG", ScoreConfidence(long_score(last)))
    ELSE IF short_score(last) >= 3
    THEN Signal("SIGNAL", "SHORT", ScoreConfidence(short_score(last)))
    ELSE Nil

\* scan(symbol) and the append of main; rows = NoRows: fetch_4h raised,
\* rows = 0: it gave up and returned an empty frame; fault: add_indicators
\* raised.  Every exception ends in scan's handler, which returns None.
StockBody(symbol, pool, rows, fault, allNaN, last) ==
    IF rows = NoRows \/ rows < MinBars
    THEN [eval |-> Skipped(symbol, rows, NoRows), pool |-> pool]
    ELSE IF fault
    THEN [eval |-> Skipped(symbol, rows, NoRows), pool |-> pool]
    ELSE
    LET df == add_indicators(rows, allNaN) IN
    IF df = 0
    THEN [eval |-> Skipped(symbol, rows, df), pool |-> pool]
    ELSE
    LET signal == StockRule(last)
    IN  [eval |-> Eval(symbol, rows, df, TRUE, TRUE, IsSignal(signal),
                       NotRequested, NoRows, FALSE, signal, Nil, "NONE", 0,
                       IF IsSignal(signal) THEN 1 ELSE 0),
         pool |-> IF IsSignal(signal)
                  THEN Append(pool, Entry(symbol, signal)) ELSE pool]

----------------------------------------------------------------------------
(* What the data provider and the indicator libraries can hand back *)

\* rows of a fetched frame: None, empty, below the floor, at the floor, more
CommodityFetched == {NoRows, 0, 49, 50, 100}
Commodity1hFetched == {NoRows, 0, 49, 100}
ForexFetched == {NoRows, 0, 49, 50, OUTPUT_SIZE}
ForexConfFetched == {NoRows, 0, 49, OUTPUT_SIZE}
StockFetched == {NoRows, 0, 49, 50, 100}

CommodityShapes ==
    { [momentum |-> 1, macd |-> 1, close |-> 101, rsi |-> 60],
      [momentum |-> -1, macd |-> -1, close |-> 99, rsi |-> 40],
      [momentum |-> 1, macd |-> -1, close |-> 101, rsi |-> 60],
      [momentum |-> 0, macd |-> 1, close |-> 101, rsi |-> 50] }

CommodityRow(v, a, s) ==
    [vol_ratio10 |-> v, adx |-> a, momentum |-> s.momentum, macd |-> s.macd,
     close |-> s.close, ema |-> 100, rsi |-> s.rsi]

CommodityRows ==
    { CommodityRow(b[1], b[2], s) : b \in {<<10, 20>>, <<19, 30>>}, s \in CommodityShapes }

Commodity1hRows == { CommodityRow(10, 20, s) : s \in CommodityShapes }

\* what confirm_with_1h can meet: a failed, empty or short fetch, a full
\* history on which the indicators fail or come out undefined, or a 1h row
Commodity1hInputs ==
    { [rows |-> n, fault |-> FALSE, allNaN |-> FALSE,
       row |-> CommodityRow(10, 20, CHOOSE s \in CommodityShapes : TRUE)] :
         n \in Commodity1hFetched \ {100} }
    \cup { [rows |-> 100, fault |-> f[1], allNaN |-> f[2],
            row |-> CommodityRow(10, 20, CHOOSE s \in CommodityShapes : TRUE)] :
              f \in {<<TRUE, FALSE>>, <<FALSE, TRUE>>} }
    \cup { [rows |-> 100, fault |-> FALSE, allNaN |-> FALSE, row |-> r] :
              r \in Commodity1hRows }

Commodity1hNone ==
    [rows |-> NoRows, fault |-> FALSE, allNaN |-> FALSE,
     row |-> CommodityRow(10, 20, CHOOSE s \in CommodityShapes : TRUE)]

\* the inputs of one iteration of a Commodity loop.  Inputs the iteration
\* never reads are fixed: the last row when no frame reaches the classifier, the
\* 1h side when the 4h row meets neither the long nor the short conditions
\* (confirm_with_1h is only called for a signal).
CommodityInputs ==
    { [rows |-> n, fault |-> f[1], allNaN |-> f[2],
       row |-> CommodityRow(10, 20, CHOOSE s \in CommodityShapes : TRUE),
       in1h |-> Commodity1hNone] :
         n \in CommodityFetched,
         f \in {<<FALSE, FALSE>>, <<TRUE, FALSE>>, <<FALSE, TRUE>>} }
    \cup { [rows |-> n, fault |-> FALSE, allNaN |-> FALSE, row |-> r,
            in1h |-> Commodity1hNone] :
              n \in {m \in CommodityFetched : m >= MinBars}, r \in CommodityRows }
    \cup { [rows |-> n, fault |-> FALSE, allNaN |-> FALSE, row |-> r, in1h |-> c] :
              n \in {m \in CommodityFetched : m >= MinBars},
              r \in {q \in CommodityRows : long_conditions(q) \/ short_conditions(q)},
              c \in Commodity1hInputs }

\* price shapes of the last 4h row: an uptrend above / at the upper band, a
\* downtrend above / at the lower band
ForexShapes ==
    { [close |-> 1105, ema50 |-> 1103, ema200 |-> 1100, bb_upper |-> 1110,
       bb_lower |-> 1090, atr |-> 100],
      [close |-> 1105, ema50 |-> 1103, ema200 |-> 1100, bb_upper |-> 1104,
       bb_lower |-> 1090, atr |-> 100],
      [close |-> 1095, ema50 |-> 1097, ema200 |-> 1100, bb_upper |-> 1110,
       bb_lower |-> 1090, atr |-> 5],
      [close |-> 1095, ema50 |-> 1097, ema200 |-> 1100, bb_upper |-> 1110,
       bb_lower |-> 1096, atr |-> 5] }

ForexRow(s, r, a) ==
    [close |-> s.close, ema50 |-> s.ema50, ema200 |-> s.ema200,
     bb_upper |-> s.bb_upper, bb_lower |-> s.bb_lower, atr |-> s.atr,
     rsi |-> r, adx |-> a]

\* every shape with a strong trend (ADX 31) and a low or a high RSI; the two
\* band shapes with a trend too weak for the trend rules (ADX 25)
ForexRows ==
    { ForexRow(s, r, 31) : s \in ForexShapes, r \in {30, 70} }
    \cup { ForexRow(s, 30, 25) : s \in {t \in ForexShapes : t.close <= t.bb_lower} }
    \cup { ForexRow(s, 70, 25) : s \in {t \in ForexShapes : t.close >= t.bb_upper} }

ForexPrevRows ==
    { [close |-> 1000, ema50 |-> 1100], [close |-> 1200, ema50 |-> 1100] }

\* last 1h rows: above the upper band, below the lower band with an RSI that
\* blocks a SELL reversal, between the bands with one that blocks a BUY
ForexConfRows ==
    { [close |-> 1120, ema50 |-> 1100, bb_upper |-> 1110, bb_lower |-> 1090, rsi |-> 50],
      [close |-> 1080, ema50 |-> 1100, bb_upper |-> 1110, bb_lower |-> 1090, rsi |-> 75],
      [close |-> 1100, ema50 |-> 1100, bb_upper |-> 1110, bb_lower |-> 1090, rsi |-> 25] }

\* what the 1h request of the Forex loop can meet
ForexConfInputs ==
    { [rows |-> n, fault |-> FALSE, row |-> CHOOSE r \in ForexConfRows : TRUE] :
         n \in ForexConfFetched \ {OUTPUT_SIZE} }
    \cup { [rows |-> OUTPUT_SIZE, fault |-> TRUE,
            row |-> CHOOSE r \in ForexConfRows : TRUE] }
    \cup { [rows |-> OUTPUT_SIZE, fault |-> FALSE, row |-> r] : r \in ForexConfRows }

\* the inputs of one iteration of the Forex loop.  Inputs the iteration never
\* reads are fixed: the rows when no primary frame reaches the classifiers,
\* the previous row when the last row is in no strong trend (only the
\* pullback rules read it).  A primary history shorter than EMA_SLOW, whose
\* slow average is undefined, is met with every last row and, on the 1h
\* side, with a failed fetch or a usable frame.
StrongTrend(r) == r.adx > 30

ForexInputs ==
    { [rows |-> n, fault |-> f, last |-> CHOOSE r \in ForexRows : TRUE,
       prev |-> CHOOSE r \in ForexPrevRows : TRUE,
       conf |-> CHOOSE c \in ForexConfInputs : c.rows = NoRows] :
         n \in ForexFetched, f \in BOOLEAN }
    \cup { [rows |-> OUTPUT_SIZE, fault |-> FALSE, last |-> r, prev |-> p, conf |-> c] :
              r \in {q \in ForexRows : StrongTrend(q)},
              p \in ForexPrevRows, c \in ForexConfInputs }
    \cup { [rows |-> OUTPUT_SIZE, fault |-> FALSE, last |-> r,
            prev |-> CHOOSE q \in ForexPrevRows : TRUE, conf |-> c] :
              r \in {q \in ForexRows : ~StrongTrend(q)}, c \in ForexConfInputs }
    \cup { [rows |-> n, fault |-> FALSE, last |-> r,
            prev |-> CHOOSE q \in ForexPrevRows : TRUE, conf |-> c] :
              n \in {m \in ForexFetched : m >= MinBars /\ m < EMA_SLOW},
              r \in ForexRows,
              c \in {d \in ForexConfInputs :
                        d.rows = NoRows \/ (d.rows = OUTPUT_SIZE /\ ~d.fault)} }

StockRows ==
    { [ADX |-> a, VW_MACD |-> m, close |-> c, tema_20 |-> 100, cmo_14 |-> o,
       ATR |-> 2] : a \in {15, 25}, m \in {-1, 1}, c \in {99, 101}, o \in {-50, 50} }

\* the inputs of one call of scan: the last row is fixed when no frame
\* reaches the rule block
StockInputs ==
    { [rows |-> n, fault |-> f[1], allNaN |-> f[2],
       last |-> CHOOSE r \in StockRows : TRUE] :
         n \in StockFetched,
         f \in {<<FALSE, FALSE>>, <<TRUE, FALSE>>, <<FALSE, TRUE>>} }
    \cup { [rows |-> n, fault |-> FALSE, allNaN |-> FALSE, last |-> r] :
              n \in {m \in StockFetched : m >= MinBars}, r \in StockRows }

----------------------------------------------------------------------------
(* The universe of each scanner, cut to the bounds *)

CommodityUniverse ==
    Take(CRYPTO, MaxCrypto) \o Take(YAHOO_SYMBOLS, MaxUniverse - MaxCrypto)

\* the first symbols of PAIRS (fetched through yfinance) and its last one
\* (fetched from Binance)
StockUniverse == Take(PAIRS, MaxUniverse - 1) \o <<PAIRS[Len(PAIRS)]>>

Universe(b) ==
    CASE b = "commodity" -> CommodityUniverse
      [] b = "forex" -> Take(FOREX_PAIRS, MaxUniverse)
      [] b = "stock" -> StockUniverse

----------------------------------------------------------------------------
(* The scan cycle *)

Bots == {"commodity", "forex", "stock"}

Init ==
    /\ bot \in Bots
    /\ pc = "scan"
    /\ idx = 1
    /\ signals = <<>>
    /\ top = <<>>
    /\ sent = <<>>
    /\ cur = NoEval
    /\ net = NoNet
    /\ call = NoCall
    /\ NoScraper

Scanning(b) == bot = b /\ pc = "scan" /\ idx <= Len(Universe(b))

\* a loop whose handler leaves the loop: the first instrument without a usable
\* frame ends the scan
StepAbort(r) ==
    /\ signals' = r.pool
    /\ cur' = [r.eval EXCEPT !.faultsBefore = cur.faultsBefore \/ Failed(cur)]
    /\ idx' = IF Failed(r.eval) THEN Len(Universe(bot)) + 1 ELSE idx + 1
    /\ UNCHANGED <<bot, pc, top, sent, net, call, history, utcnow, run, previous_signals, new_signals>>

\* one iteration of a scan loop took the pool and the record from r; whatever
\* happened (continue, a caught exception, a candidate) the loop goes on with
\* the next instrument
Step(r) ==
    /\ signals' = r.pool
    /\ cur' = [r.eval EXCEPT !.faultsBefore = cur.faultsBefore \/ Failed(cur)]
    /\ idx' = idx + 1
    /\ UNCHANGED <<bot, pc, top, sent, net, call, history, utcnow, run, previous_signals, new_signals>>

\* scan_assets, the loop over CRYPTO (fetch_binance_data)
ScanCrypto ==
    /\ Scanning("commodity")
    /\ idx <= Min(MaxCrypto, Len(CRYPTO))
    /\ \E in \in CommodityInputs :
         Step(CommodityBody(Universe(bot)[idx], signals, in.rows, in.fault, in.allNaN,
                            in.row, in.in1h.rows, in.in1h.fault, in.in1h.allNaN,
                            in.in1h.row))

\* scan_assets, the loop over YAHOO_SYMBOLS (fetch_yahoo_data)
ScanYahoo ==
    /\ Scanning("commodity")
    /\ idx > Min(MaxCrypto, Len(CRYPTO))
    /\ \E in \in CommodityInputs :
         Step(CommodityBody(Universe(bot)[idx], signals, in.rows, in.fault, in.allNaN,
                            in.row, in.in1h.rows, in.in1h.fault, in.in1h.allNaN,
                            in.in1h.row))

\* the main loop of Forex_Signal_Bot.py
ScanForex ==
    /\ Scanning("forex")
    /\ \E in \in ForexInputs :
         Step(ForexBody(Universe(bot)[idx], signals, in.rows, in.fault, in.last,
                        in.prev, in.conf.rows, in.conf.fault, in.conf.row))

\* the loop of main in Stock_signal_Bot.py: scan(symbol), then the append
ScanStock ==
    /\ Scanning("stock")
    /\ \E in \in StockInputs :
         Step(StockBody(Universe(bot)[idx], signals, in.rows, in.fault, in.allNaN,
                        in.last))

\* the ranking step after the loop
\* Commodity: signals.sort(reverse=True); top_signals = signals[:TOP_SIGNALS]
\* Forex:     all_signals.sort(reverse=True); top_signals = all_signals[:3]
\* Stock:     top3 = heapq.nlargest(3, signals)
Selection(b, pool) ==
    IF b = "stock" THEN nlargest(3, pool) ELSE Take(SortDesc(pool), TOP_SIGNALS)

Rank ==
    /\ pc = "scan"
    /\ idx > Len(Universe(bot))
    /\ IF signals # <<>>
       THEN /\ signals' = IF bot = "stock" THEN signals ELSE SortDesc(signals)
            /\ top' = Selection(bot, signals)
            /\ pc' = "deliver"
       ELSE /\ pc' = IF bot = "commodity" THEN "notice" ELSE "done"
            /\ UNCHANGED <<signals, top>>
    /\ cur' = NoEval
    /\ UNCHANGED <<bot, idx, sent, net, call, history, utcnow, run, previous_signals, new_signals>>

\* a delivery loop that a failed delivery ends
DeliverAbort ==
    /\ pc = "deliver"
    /\ Len(sent) < Len(top)
    /\ \E ok \in BOOLEAN :
         /\ sent' = Append(sent, [inst |-> top[Len(sent) + 1].inst, ok |-> ok])
         /\ pc' = IF ~ok \/ Len(sent) + 1 = Len(top) THEN "done" ELSE "deliver"
    /\ UNCHANGED <<bot, idx, signals, top, cur, net, call, history, utcnow, run, previous_signals, new_signals>>

\* one iteration of the delivery loop: the channel answers ok or not
Deliver ==
    /\ pc = "deliver"
    /\ Len(sent) < Len(top)
    /\ \E ok \in BOOLEAN :
         sent' = Append(sent, [inst |-> top[Len(sent) + 1].inst, ok |-> ok])
    /\ pc' = IF Len(sent) + 1 = Len(top) THEN "done" ELSE "deliver"
    /\ UNCHANGED <<bot, idx, signals, top, cur, net, call, history, utcnow, run, previous_signals, new_signals>>

\* Commodity only: the "no qualified signals" notice, sent outside any handler
NoSignalNotice ==
    /\ pc = "notice"
    /\ \E ok \in BOOLEAN : pc' = IF ok THEN "done" ELSE "crashed"
    /\ UNCHANGED <<bot, idx, signals, top, sent, cur, net, call, history, utcnow, run, previous_signals, new_signals>>

Next ==
    \/ ScanCrypto
    \/ ScanYahoo
    \/ ScanForex
    \/ ScanStock
    \/ Rank
    \/ Deliver
    \/ NoSignalNotice

Spec == Init /\ [][Next]_vars

----------------------------------------------------------------------------
(* Properties of the scan cycle *)

Ranked == pc \in {"deliver", "done"} /\ top # <<>>

InRange(c) == c >= 0 /\ c <= 100

\* C1: every candidate a scanner produces carries a confidence between 0 and
\* 100: the candidates returned by the classifiers for the instrument just
\* evaluated and every candidate in the pool.
C1_ConfidenceInRange ==
    /\ \A i \in DOMAIN signals : InRange(signals[i].confidence)
    /\ IsSignal(cur.signal) => InRange(cur.signal.confidence)
    /\ IsSignal(cur.reversal) => InRange(cur.reversal.confidence)

\* C2: the selection handed to delivery is in non-increasing confidence order
\* and has at most TOP_SIGNALS = 3 elements, however many candidates the
\* cycle collected.
C2_SelectionSortedAndBounded ==
    pc \in {"deliver", "done"} =>
        /\ Len(top) <= TOP_SIGNALS
        /\ \A i, j \in DOMAIN top : i < j => top[i].confidence >= top[j].confidence

\* C2 witness: a cycle that collected more than three candidates of different
\* confidences and ranked them
C2_Witness ==
    /\ Ranked
    /\ Len(signals) > TOP_SIGNALS
    /\ Len(top) = TOP_SIGNALS
    /\ top[1].confidence > top[3].confidence

\* C3: every candidate handed to delivery has a confidence of at least the
\* floor of 50, in each scanner.
C3_SelectionAboveFloor ==
    pc \in {"deliver", "done"} =>
        \A i \in DOMAIN top : top[i].confidence >= ConfidenceFloor

Qualifies(e) == e.confidence >= ConfidenceFloor

\* C4: the selection is exactly the first three of the floor-qualifying
\* candidates of the cycle in confidence-descending order (so no candidate
\* left out beats a selected one).
C4_SelectionIsTopOfQualifying ==
    pc \in {"deliver", "done"} =>
        top = Take(SortDesc(SelectSeq(signals, Qualifies)), TOP_SIGNALS)

IsPrefix(s, t) == Len(s) <= Len(t) /\ SubSeq(t, 1, Len(s)) = s

\* C5: fault isolation.  Each step of a scan loop evaluates the instrument
\* at the current position and moves to the next one, whatever happened to
\* the instruments before it and to this one; it never drops a pooled
\* candidate; an instrument without a usable frame adds nothing; a candidate
\* the instrument contributes is the new last element of the pool; and the
\* ranking step is reached only after the whole universe was evaluated.
C5_FaultIsolation ==
    [][ /\ (pc = "scan" /\ pc' = "scan") =>
              /\ idx' = idx + 1
              /\ cur'.inst = Universe(bot)[idx]
              /\ IsPrefix(signals, signals')
              /\ Len(signals') = Len(signals) + cur'.added
              /\ Failed(cur') => cur'.added = 0
              /\ cur'.added = 1 =>
                    /\ signals'[Len(signals')].inst = cur'.inst
                    /\ cur'.raw >= MinBars
        /\ (pc = "scan" /\ pc' # "scan") => idx = Len(Universe(bot)) + 1
      ]_vars

\* C5 witness: an instrument contributed its candidate after an earlier
\* instrument of the same cycle had been skipped for want of a usable frame
C5_Witness ==
    /\ pc = "scan"
    /\ cur.faultsBefore
    /\ cur.added = 1
    /\ signals # <<>>
    /\ signals[Len(signals)].inst = cur.inst

Short(n) == n = NoRows \/ (n >= 0 /\ n < MinBars)

LastEntry == signals[Len(signals)]

\* C6: when the confirmation timeframe cannot be fetched or its indicators
\* cannot be computed, the candidate of a primary rule that fired is still
\* produced, with a confirmation bonus of 0: in the Commodity scanner the
\* signal keeps its base confidence and enters the pool if that reaches the
\* floor; in the Forex scanner the candidate of the rule that fired is
\* returned and appended to the pool.
C6_ConfirmationFailureKeepsCandidate ==
    /\ (bot = "commodity" /\ cur.confRaw # NotRequested /\ cur.confPost \in {NoRows, 0}) =>
          /\ IsSignal(cur.signal)
          /\ cur.bonus = 0
          /\ Qualifies(cur.signal) =>
                (cur.added = 1 /\ LastEntry = Entry(cur.inst, cur.signal))
    /\ (bot = "forex" /\ cur.invoked /\ cur.confPost = NoRows /\ cur.scored) =>
          /\ IsSignal(cur.signal)
          /\ cur.bonus = 0
          /\ cur.added = 1
          /\ LastEntry = Entry(cur.inst, cur.signal)

\* C6 witness: a candidate entered the pool although the confirmation
\* request of its instrument gave no usable frame
C6_Witness ==
    /\ pc = "scan"
    /\ cur.confRaw # NotRequested
    /\ cur.confPost = NoRows
    /\ cur.added = 1

\* C7: an instrument whose fetched bars are missing, empty or fewer than 50
\* gets no frame from the indicator pipeline (None, never a partial frame),
\* no classifier or scorer is called for it and it adds no candidate; a
\* confirmation history that short is not classified either.
C7_ShortHistoryNeverClassified ==
    /\ Short(cur.raw) =>
          /\ cur.post = NoRows
          /\ ~cur.invoked /\ ~cur.classified /\ ~cur.scored
          /\ ~IsSignal(cur.signal) /\ ~IsSignal(cur.reversal)
          /\ cur.added = 0
    /\ Short(cur.confRaw) => (cur.confPost = NoRows /\ ~cur.confInvoked)

\* C7 witness: an instrument with 49 bars was evaluated
C7_Witness == pc = "scan" /\ cur.raw = MinBars - 1

C15_OneDeliveryPerSelected ==
    /\ Len(sent) <= Len(top)
    /\ \A i \in DOMAIN sent : sent[i].inst = top[i].inst
    /\ pc = "done" => Len(sent) = Len(top)

\* C15 witness: the cycle ended with three deliveries, the first of which
\* had failed
C15_Witness ==
    /\ pc = "done"
    /\ Len(top) = TOP_SIGNALS
    /\ Len(sent) = TOP_SIGNALS
    /\ ~sent[1].ok
    /\ sent[TOP_SIGNALS].ok

\* C16: a cycle in which no candidate qualified completes with an empty
\* selection: nothing is delivered and no error leaves the scan, whatever
\* the notification channel does.
C16_EmptySelectionNoError ==
    (pc # "scan" /\ signals = <<>>) =>
        /\ top = <<>>
        /\ sent = <<>>
        /\ pc \in {"notice", "done"}

\* the place of an instrument in the scan order
Pos(inst) == CHOOSE i \in DOMAIN Universe(bot) : Universe(bot)[i] = inst

InTop(e) == \E i \in DOMAIN top : top[i] = e

\* C17: candidates of equal confidence appear in the selection in the order
\* in which the scan discovered them, and when candidates tie at the last
\* place of the selection the one left out was discovered later.
C17_TiesInDiscoveryOrder ==
    pc \in {"deliver", "done"} =>
        /\ \A i, j \in DOMAIN top :
              (i < j /\ top[i].confidence = top[j].confidence)
                  => Pos(top[i].inst) < Pos(top[j].inst)
        /\ \A k \in DOMAIN signals :
              (~InTop(signals[k]) /\ signals[k].confidence = top[Len(top)].confidence)
                  => Pos(signals[k].inst) > Pos(top[Len(top)].inst)

\* C17 witness: four candidates were ranked and the one left out has the
\* confidence of the third selected one
C17_Witness ==
    /\ Ranked
    /\ Len(top) = TOP_SIGNALS
    /\ \E k \in DOMAIN signals :
          /\ ~InTop(signals[k])
          /\ signals[k].confidence = top[TOP_SIGNALS].confidence

----------------------------------------------------------------------------
(* The scan cycle with the requests to the data provider *)

\* what the provider does with one request: a payload with bars, an answer
\* without usable bars, an error (HTTP status, connection), no answer at all
Answers == {"data", "nodata", "error", "silent"}

\* seconds of the timeout= argument of the request, NoTimeout where the call
\* passes none
NoTimeout == 0

RequestTimeout(fetcher) ==
    CASE fetcher = "fetch_binance_data" -> 15
      [] fetcher = "fetch_yahoo_data" -> 15
      [] fetcher = "fetch_4h" -> 10
      [] fetcher = "fetch_ohlc_data" -> NoTimeout

\* the call never returns: the provider is silent and nothing bounds the wait
Blocks(fetcher, answer) ==
    answer = "silent" /\ RequestTimeout(fetcher) = NoTimeout

\* a fetch result: the frame (rows, NoRows for None), the requests issued,
\* how many of them ended in a retry, raised: an exception left the fetcher,
\* blocked: the call did not return
Fetched(df, requests, retried, raised, blocked) ==
    [df |-> df, requests |-> requests, retried |-> retried, raised |-> raised,
     blocked |-> blocked]

\* a fetcher that asks again after an error
fetch_binance_data_retry(answer, rows) ==
    IF answer = "data" THEN Fetched(rows, 1, 0, FALSE, FALSE)
    ELSE Fetched(NoRows, 2, 1, FALSE, FALSE)

\* fetch_binance_data and fetch_yahoo_data: one requests.get(timeout=15);
\* every exception, the Timeout of a silent provider included, gives None
fetch_binance_data(answer, rows) ==
    IF answer = "data" THEN Fetched(rows, 1, 0, FALSE, FALSE)
    ELSE Fetched(NoRows, 1, 0, FALSE, Blocks("fetch_binance_data", answer))

fetch_yahoo_data(answer, rows) ==
    IF answer = "data" THEN Fetched(rows, 1, 0, FALSE, FALSE)
    ELSE Fetched(NoRows, 1, 0, FALSE, Blocks("fetch_yahoo_data", answer))

\* fetch_ohlc_data: one requests.get(url) without timeout; no 'values' in the
\* answer or any exception gives None
fetch_ohlc_data(answer, rows) ==
    IF answer = "data" THEN Fetched(rows, 1, 0, FALSE, FALSE)
    ELSE Fetched(NoRows, 1, 0, FALSE, Blocks("fetch_ohlc_data", answer))

\* fetch_4h(symbol, limit=50, retries=3)
RETRIES == 3

EndsWithUSDT(symbol) == symbol \in {"ADAUSDT", "BNBUSDT"}

\* attempt: the value of the loop variable.  A RequestException or
\* ConnectionError (the Timeout of a silent provider is one) is logged and
\* the request is issued again; after the last attempt an empty frame is
\* returned.  An answer without bars is an empty frame on the Binance path
\* and a KeyError at the column selection on the yfinance path, which leaves
\* the function.
RECURSIVE fetch_4h_attempt(_, _, _, _)
fetch_4h_attempt(symbol, answers, rows, attempt) ==
    IF attempt >= RETRIES THEN Fetched(0, attempt, attempt, FALSE, FALSE)
    ELSE IF answers[attempt + 1] = "data"
    THEN Fetched(rows, attempt + 1, attempt, FALSE, FALSE)
    ELSE IF answers[attempt + 1] = "nodata"
    THEN IF EndsWithUSDT(symbol)
         THEN Fetched(0, attempt + 1, attempt, FALSE, FALSE)
         ELSE Fetched(NoRows, attempt + 1, attempt, TRUE, FALSE)
    ELSE IF Blocks("fetch_4h", answers[attempt + 1])
    THEN Fetched(NoRows, attempt + 1, attempt, FALSE, TRUE)
    ELSE fetch_4h_attempt(symbol, answers, rows, attempt + 1)

fetch_4h(symbol, answers, rows) == fetch_4h_attempt(symbol, answers, rows, 0)

\* the inputs that decide the path of an iteration: a history long enough or
\* not, a last row on which a rule fires, a 1h side that answers or not
CommodityFlowInputs ==
    { in \in CommodityInputs :
        /\ ~in.fault /\ ~in.allNaN
        /\ in.rows \in {49, 100}
        /\ in.rows = 100 => in.row = CommodityRow(19, 30, [momentum |-> 1, macd |-> 1, close |-> 101, rsi |-> 60])
        /\ ~in.in1h.fault /\ ~in.in1h.allNaN
        /\ in.in1h.rows \in {NoRows, 100}
        /\ in.in1h.rows = 100 => in.in1h.row = CommodityRow(10, 20, [momentum |-> 1, macd |-> 1, close |-> 101, rsi |-> 60]) }

ForexFlowInputs ==
    { in \in ForexInputs :
        /\ ~in.fault /\ ~in.conf.fault
        /\ in.rows \in {49, OUTPUT_SIZE}
        /\ in.rows = OUTPUT_SIZE =>
              /\ in.last = ForexRow(CHOOSE s \in ForexShapes : s.close > s.ema50 /\ s.close < s.bb_upper, 30, 31)
              /\ in.prev = [close |-> 1000, ema50 |-> 1100]
        /\ in.conf.rows \in {NoRows, OUTPUT_SIZE}
        /\ in.conf.rows = OUTPUT_SIZE => in.conf.row = CHOOSE r \in ForexConfRows : r.rsi = 50 }

StockFlowInputs ==
    { in \in StockInputs :
        /\ ~in.fault /\ ~in.allNaN
        /\ in.rows \in {49, 100}
        /\ in.rows = 100 => in.last = [ADX |-> 25, VW_MACD |-> 1, close |-> 101, tema_20 |-> 100, cmo_14 |-> 50, ATR |-> 2] }

\* the requests of one iteration
Requests(primary, confirmation, retried) ==
    [primary |-> primary, confirmation |-> confirmation, retried |-> retried]

\* the iteration ended: r is what its body made of the pool, n its requests
FlowStep(r, n) ==
    /\ signals' = r.pool
    /\ cur' = [r.eval EXCEPT !.faultsBefore = cur.faultsBefore \/ Failed(cur)]
    /\ idx' = idx + 1
    /\ net' = n
    /\ UNCHANGED <<bot, pc, top, sent, call, history, utcnow, run, previous_signals, new_signals>>

\* the iteration waits for an answer that does not come
FlowBlocked(n) ==
    /\ pc' = "blocked"
    /\ net' = n
    /\ UNCHANGED <<bot, idx, signals, top, sent, cur, call, history, utcnow, run, previous_signals, new_signals>>

\* one iteration of a loop of scan_assets; fetch and fetch1h are the fetchers
\* of the group (their timeout bounds every wait, so no call blocks)
FlowCommodity(in, fetch, fetch1h) ==
    LET r == CommodityBody(Universe(bot)[idx], signals, fetch.df, in.fault, in.allNaN,
                           in.row, fetch1h.df, in.in1h.fault, in.in1h.allNaN,
                           in.in1h.row)
    IN  FlowStep(r, Requests(fetch.requests,
                             IF r.eval.confRaw # NotRequested THEN fetch1h.requests ELSE 0,
                             fetch.retried))

FlowCrypto ==
    /\ Scanning("commodity")
    /\ idx <= Min(MaxCrypto, Len(CRYPTO))
    /\ \E in \in CommodityFlowInputs, a \in Answers, a1h \in Answers :
         FlowCommodity(in, fetch_binance_data(a, in.rows),
                       fetch_binance_data(a1h, in.in1h.rows))

FlowYahoo ==
    /\ Scanning("commodity")
    /\ idx > Min(MaxCrypto, Len(CRYPTO))
    /\ \E in \in CommodityFlowInputs, a \in Answers, a1h \in Answers :
         FlowCommodity(in, fetch_yahoo_data(a, in.rows),
                       fetch_yahoo_data(a1h, in.in1h.rows))

\* one iteration of the main loop of Forex_Signal_Bot.py: the 4h request,
\* then, if a primary frame came out of it, the 1h request
FlowForex ==
    /\ Scanning("forex")
    /\ \E in \in ForexFlowInputs, a \in Answers, aConf \in Answers :
         LET fetch == fetch_ohlc_data(a, in.rows)
             fetchConf == fetch_ohlc_data(aConf, in.conf.rows)
             r == ForexBody(Universe(bot)[idx], signals, fetch.df, in.fault, in.last,
                            in.prev, fetchConf.df, in.conf.fault, in.conf.row)
             asked == r.eval.confRaw # NotRequested
         IN  IF fetch.blocked
             THEN FlowBlocked(Requests(fetch.requests, 0, 0))
             ELSE IF asked /\ fetchConf.blocked
             THEN FlowBlocked(Requests(fetch.requests, fetchConf.requests, 0))
             ELSE FlowStep(r, Requests(fetch.requests,
                                       IF asked THEN fetchConf.requests ELSE 0, 0))

\* one iteration of the loop of main in Stock_signal_Bot.py: scan(symbol)
\* calls fetch_4h once; an exception that leaves fetch_4h ends in the handler
\* of scan
FlowStock ==
    /\ Scanning("stock")
    /\ \E in \in StockFlowInputs, answers \in [1..RETRIES -> Answers] :
         LET fetch == fetch_4h(Universe(bot)[idx], answers, in.rows)
             r == StockBody(Universe(bot)[idx], signals, fetch.df, in.fault,
                            in.allNaN, in.last)
         IN  IF fetch.blocked
             THEN FlowBlocked(Requests(fetch.requests, 0, fetch.retried))
             ELSE FlowStep(r, Requests(fetch.requests, 0, fetch.retried))

FlowNext ==
    \/ FlowCrypto
    \/ FlowYahoo
    \/ FlowForex
    \/ FlowStock
    \/ Rank
    \/ Deliver
    \/ NoSignalNotice

\* the interpreter runs the script on: a step that can be taken is taken
FlowSpec == Init /\ [][FlowNext]_vars /\ WF_vars(FlowNext)

----------------------------------------------------------------------------
(* One call of a classifier: the candidate with all its fields *)

\* price levels are kept x 1000 (prices are in thousandths), so that
\* close * 1.035 and atr * 1.2 stay integers
Levels(entry, stop_loss, tp1, tp2, tp3) ==
    [entry |-> entry, stop_loss |-> stop_loss, take_profit |-> <<tp1, tp2, tp3>>]

\* levels whose stop is set on the far side of the fast average for both
\* directions
TrendLevels_stopabove(last, signal) ==
    IF signal.direction = "BUY"
    THEN Levels(last.close * 1000, last.ema50 * 1000 + last.atr * 1200,
                last.close * 1020, last.close * 1035, last.close * 1050)
    ELSE Levels(last.close * 1000, last.ema50 * 1000 + last.atr * 1200,
                last.close * 980, last.close * 965, last.close * 950)

\* entry, sl and take_profit of the four signal dicts of
\* detect_trend_following_signal
TrendLevels(last, signal) ==
    IF signal.type = "TREND FOLLOWING" /\ signal.direction = "BUY"
    THEN Levels(last.close * 1000, last.ema50 * 1000 - last.atr * 1200,
                last.close * 1020, last.close * 1035, last.close * 1050)
    ELSE IF signal.type = "BREAKOUT"
    THEN Levels(last.close * 1000, last.bb_upper * 1000 - last.atr * 1500,
                last.close * 1025, last.close * 1045, last.close * 1070)
    ELSE IF signal.type = "TREND FOLLOWING" /\ signal.direction = "SELL"
    THEN Levels(last.close * 1000, last.ema50 * 1000 + last.atr * 1200,
                last.close * 980, last.close * 965, last.close * 950)
    ELSE Levels(last.close * 1000, last.bb_lower * 1000 + last.atr * 1500,
                last.close * 975, last.close * 955, last.close * 930)

\* entry, sl and take_profit of the two signal dicts of detect_reversal_signal
ReversalLevels(last, signal) ==
    IF signal.direction = "BUY"
    THEN Levels(last.close * 1000, last.bb_lower * 998,
                last.close * 1015, last.close * 1025, last.close * 1040)
    ELSE Levels(last.close * 1000, last.bb_upper * 1002,
                last.close * 985, last.close * 975, last.close * 960)

\* the dict a Forex classifier returns, None as Nil
WithLevels(signal, levels) ==
    IF IsSignal(signal)
    THEN [type |-> signal.type, direction |-> signal.direction,
          confidence |-> signal.confidence, entry |-> levels.entry,
          stop_loss |-> levels.stop_loss, take_profit |-> levels.take_profit]
    ELSE Nil

\* what detect_trend_following_signal(primary_df, confirmation_df) returns
trend_signal(rows, last, prev, confRows, conf_last) ==
    WithLevels(detect_trend_following_signal(rows, last, prev, confRows, conf_last),
               TrendLevels(last, TrendRule(last, prev, HasConfLast(confRows), conf_last)))

\* what detect_reversal_signal(primary_df, confirmation_df) returns
reversal_signal(rows, last, confRows, conf_last) ==
    WithLevels(detect_reversal_signal(rows, last, confRows, conf_last),
               ReversalLevels(last, ReversalRule(last, HasConfLast(confRows), conf_last)))

\* a rule block whose entry price depends on the moment of the call
scan_signal_clocked(symbol, last, now) ==
    IF ~IsSignal(StockRule(last)) THEN Nil
    ELSE [type |-> "SIGNAL", symbol |-> symbol, direction |-> StockRule(last).direction,
          confidence |-> StockRule(last).confidence,
          entry |-> last.close * 1000 + now,
          stop_loss |-> last.close * 1000, take_profit |-> <<>>, time |-> now]

\* the dict scan(symbol) returns from a frame that reached the rule block;
\* now is what datetime.utcnow() reads, to the minute
scan_signal(symbol, last, now) ==
    IF ~IsSignal(StockRule(last)) THEN Nil
    ELSE LET direction == StockRule(last).direction
             entry == last.close * 1000
         IN  [type |-> "SIGNAL", symbol |-> symbol, direction |-> direction,
              confidence |-> StockRule(last).confidence, entry |-> entry,
              stop_loss |-> IF direction = "LONG" THEN entry - last.ATR * 1500
                            ELSE entry + last.ATR * 1500,
              take_profit |-> IF direction = "LONG"
                              THEN <<last.close * 1020, last.close * 1035, last.close * 1050>>
                              ELSE <<last.close * 980, last.close * 965, last.close * 950>>,
              time |-> now]

\* the tuple (direction, base_confidence, row) detect_trading_signal returns
commodity_signal(rows, row, asset) ==
    IF ~IsSignal(detect_trading_signal(rows, row, asset)) THEN Nil
    ELSE [type |-> "SIGNAL",
          direction |-> detect_trading_signal(rows, row, asset).direction,
          confidence |-> detect_trading_signal(rows, row, asset).confidence,
          row |-> row]

\* the locals of calculate_confidence when the call is left, by its return or
\* by the exception of the confirmation test: the four component scores are
\* assigned before that test (lines 108-139).  Scores in halves of a point;
\* volatility2 is the amount added to the confidence, confirmation2 the amount
\* the confirmation block added.
confidence_locals(signal_type, primary_last, hasConf, conf_last) ==
    [raised |-> calculate_confidence(signal_type, primary_last, hasConf, conf_last).raised,
     value |-> calculate_confidence(signal_type, primary_last, hasConf, conf_last).value,
     adx_score2 |-> adx_score2(primary_last),
     rsi_score2 |-> rsi_score2(signal_type, primary_last),
     ema_score2 |-> ema_score2(primary_last),
     volatility2 |-> volatility_part2(signal_type, primary_last),
     confirmation2 |-> calculate_confidence(signal_type, primary_last, hasConf, conf_last).bonus * 2]

\* minutes of the wall clock during a call
Clock == {0, 1}

\* last rows of a primary Forex frame: both sides of every threshold of the
\* rules and of the scorer
PrimaryRows ==
    { [close |-> c, ema50 |-> e, ema200 |-> s, bb_upper |-> b[1], bb_lower |-> b[2],
       atr |-> a, rsi |-> r, adx |-> x] :
         c \in {1095, 1105}, e \in {1097, 1103}, s \in {1100, NaN},
         b \in {<<1110, 1090>>, <<1104, 1090>>, <<1110, 1096>>},
         a \in {5, 100, 200}, r \in {25, 30, 55, 70, 75}, x \in {20, 25, 31, 35} }

\* last rows of a confirmation frame
ConfirmationRows ==
    ForexConfRows
    \cup { [close |-> 1080, ema50 |-> 1100, bb_upper |-> 1110, bb_lower |-> 1090,
            rsi |-> 50] }

\* confirmation_df as the classifiers receive it: None, or a frame and its
\* last row
ConfirmationFrames ==
    { [rows |-> NoRows, last |-> CHOOSE r \in ConfirmationRows : TRUE] }
    \cup { [rows |-> OUTPUT_SIZE, last |-> r] : r \in ConfirmationRows }

TrendCalls ==
    { [fn |-> "detect_trend_following_signal", done |-> FALSE, rows |-> OUTPUT_SIZE,
       last |-> l, prev |-> p, confRows |-> c.rows, conf_last |-> c.last,
       out |-> Nil, again |-> Nil] :
         l \in PrimaryRows, p \in ForexPrevRows, c \in ConfirmationFrames }

ReversalCalls ==
    { [fn |-> "detect_reversal_signal", done |-> FALSE, rows |-> OUTPUT_SIZE,
       last |-> l, confRows |-> c.rows, conf_last |-> c.last,
       out |-> Nil, again |-> Nil] :
         l \in PrimaryRows, c \in ConfirmationFrames }

CommodityCalls ==
    { [fn |-> "detect_trading_signal", done |-> FALSE, rows |-> n, row |-> r,
       asset |-> a, out |-> Nil, again |-> Nil] :
         n \in {1, 2, 52}, r \in CommodityRows,
         a \in {CommodityUniverse[i] : i \in DOMAIN CommodityUniverse} }

StockCalls ==
    { [fn |-> "scan", done |-> FALSE, symbol |-> y, last |-> l,
       out |-> Nil, again |-> Nil] :
         y \in {PAIRS[1], PAIRS[2]}, l \in StockRows }

\* the calls of calculate_confidence the two Forex classifiers make: the
\* trend classifier passes signal['type'], the reversal classifier passes
\* signal['direction']; regime and direction are those of the signal dict
ConfidenceCalls ==
    { [fn |-> "calculate_confidence", done |-> FALSE,
       regime |-> TrendRule(l, p, HasConfLast(c.rows), c.last).type,
       direction |-> TrendRule(l, p, HasConfLast(c.rows), c.last).direction,
       signal_type |-> TrendRule(l, p, HasConfLast(c.rows), c.last).type,
       last |-> l, confRows |-> c.rows, conf_last |-> c.last,
       out |-> Nil, again |-> Nil] :
         <<l, p, c>> \in { t \in PrimaryRows \X ForexPrevRows \X ConfirmationFrames :
                             IsSignal(TrendRule(t[1], t[2], HasConfLast(t[3].rows), t[3].last)) } }
    \cup
    { [fn |-> "calculate_confidence", done |-> FALSE,
       regime |-> ReversalRule(l, HasConfLast(c.rows), c.last).type,
       direction |-> ReversalRule(l, HasConfLast(c.rows), c.last).direction,
       signal_type |-> ReversalRule(l, HasConfLast(c.rows), c.last).direction,
       last |-> l, confRows |-> c.rows, conf_last |-> c.last,
       out |-> Nil, again |-> Nil] :
         <<l, c>> \in { t \in PrimaryRows \X ConfirmationFrames :
                          IsSignal(ReversalRule(t[1], HasConfLast(t[2].rows), t[2].last)) } }

\* one pass of the loop body of scan_assets on a fetched 4h history.  The 4h
\* rows add those with one boost only (volume or ADX), the 1h side a history
\* one bar over the floor, which dropna cuts to one row.
ScanAssetsCalls ==
    { [fn |-> "scan_assets", done |-> FALSE, asset |-> a, rows |-> n, row |-> r,
       in1h |-> c, out |-> Nil, again |-> Nil] :
         a \in {CommodityUniverse[i] : i \in DOMAIN CommodityUniverse},
         n \in {51, 100},
         r \in CommodityRows
               \cup { CommodityRow(b[1], b[2], q) :
                        b \in {<<19, 20>>, <<10, 30>>}, q \in CommodityShapes },
         c \in Commodity1hInputs
               \cup { [rows |-> 50, fault |-> FALSE, allNaN |-> FALSE, row |-> q] :
                        q \in Commodity1hRows } }

ClassifierInit ==
    /\ call \in TrendCalls \cup ReversalCalls \cup CommodityCalls \cup StockCalls
                \cup ScanAssetsCalls \cup ConfidenceCalls
    /\ bot = CASE call.fn \in {"detect_trading_signal", "scan_assets"} -> "commodity"
               [] call.fn = "scan" -> "stock"
               [] OTHER -> "forex"
    /\ pc = "call"
    /\ idx = 1
    /\ signals = <<>>
    /\ top = <<>>
    /\ sent = <<>>
    /\ cur = NoEval
    /\ net = NoNet
    /\ NoScraper

\* the call returns; the same call made again on the same arguments returns
\* `again`
Returned(out, again) ==
    /\ call' = [call EXCEPT !.done = TRUE, !.out = out, !.again = again]
    /\ pc' = "returned"
    /\ UNCHANGED <<bot, idx, signals, top, sent, cur, net, history, utcnow, run, previous_signals, new_signals>>

CallTrend ==
    /\ pc = "call"
    /\ call.fn = "detect_trend_following_signal"
    /\ Returned(trend_signal(call.rows, call.last, call.prev, call.confRows, call.conf_last),
                trend_signal(call.rows, call.last, call.prev, call.confRows, call.conf_last))

CallReversal ==
    /\ pc = "call"
    /\ call.fn = "detect_reversal_signal"
    /\ Returned(reversal_signal(call.rows, call.last, call.confRows, call.conf_last),
                reversal_signal(call.rows, call.last, call.confRows, call.conf_last))

CallCommodity ==
    /\ pc = "call"
    /\ call.fn = "detect_trading_signal"
    /\ Returned(commodity_signal(call.rows, call.row, call.asset),
                commodity_signal(call.rows, call.row, call.asset))

\* the two calls of scan read the clock at their own time
CallStock ==
    /\ pc = "call"
    /\ call.fn = "scan"
    /\ \E now1 \in Clock, now2 \in Clock :
         Returned(scan_signal(call.symbol, call.last, now1),
                  scan_signal(call.symbol, call.last, now2))

\* the evaluation record of the pass: the candidate after the confirmation
\* bonus, the bonus, and whether the candidate was appended
scan_assets_pass(asset, rows, row, in1h) ==
    CommodityBody(asset, <<>>, rows, FALSE, FALSE, row, in1h.rows, in1h.fault,
                  in1h.allNaN, in1h.row).eval

CallScanAssets ==
    /\ pc = "call"
    /\ call.fn = "scan_assets"
    /\ Returned(scan_assets_pass(call.asset, call.rows, call.row, call.in1h),
                scan_assets_pass(call.asset, call.rows, call.row, call.in1h))

CallConfidence ==
    /\ pc = "call"
    /\ call.fn = "calculate_confidence"
    /\ Returned(confidence_locals(call.signal_type, call.last,
                                  HasConfLast(call.confRows), call.conf_last),
                confidence_locals(call.signal_type, call.last,
                                  HasConfLast(call.confRows), call.conf_last))

ClassifierNext ==
    \/ CallTrend
    \/ CallReversal
    \/ CallCommodity
    \/ CallStock
    \/ CallScanAssets
    \/ CallConfidence

ClassifierSpec == ClassifierInit /\ [][ClassifierNext]_vars

----------------------------------------------------------------------------
(* Free_Forex_Signal.py: the retry loops *)

max_retries == 3

\* what one POST to the Telegram API can come to: an HTTP error status and a
\* timeout are RequestExceptions
PostOutcomes == {"ok", "RequestException"}

\* the loop of send_telegram_message from attempt on; posts[i]: the outcome
\* of the i-th POST
RECURSIVE send_telegram_message_attempt(_, _)
send_telegram_message_attempt(posts, attempt) ==
    IF posts[attempt + 1] = "ok"
    THEN [result |-> "True", attempts |-> attempt + 1]
    ELSE IF attempt = max_retries - 1
    THEN [result |-> "False", attempts |-> attempt + 1]
    ELSE send_telegram_message_attempt(posts, attempt + 1)

\* a loop that goes on after a successful POST and reports its last one
send_telegram_message_nostop(posts) ==
    [result |-> IF posts[max_retries] = "ok" THEN "True" ELSE "False",
     attempts |-> max_retries]

send_telegram_message(posts) == send_telegram_message_attempt(posts, 0)

\* the loop of setup_selenium from attempt on; chrome[i]: the outcome of the
\* i-th webdriver.Chrome()
RECURSIVE setup_selenium_attempt(_, _)
setup_selenium_attempt(chrome, attempt) ==
    IF chrome[attempt + 1] = "ok"
    THEN [result |-> "driver", attempts |-> attempt + 1]
    ELSE IF attempt = max_retries - 1
    THEN [result |-> "raised", attempts |-> attempt + 1]
    ELSE setup_selenium_attempt(chrome, attempt + 1)

setup_selenium(chrome) == setup_selenium_attempt(chrome, 0)

\* the loop of scrape_signals from attempt on; tries[i]: what the i-th
\* attempt meets, the outcomes of its browser start-ups and of its page
\* visit.  inits counts the webdriver.Chrome() calls of all attempts.
RECURSIVE scrape_signals_attempt(_, _, _)
scrape_signals_attempt(tries, attempt, inits) ==
    LET driver == setup_selenium(tries[attempt + 1].chrome)
        started == inits + driver.attempts
    IN  IF driver.result = "driver" /\ tries[attempt + 1].page = "signal"
        THEN [result |-> "page_text", attempts |-> attempt + 1, inits |-> started]
        ELSE IF attempt = max_retries - 1
        THEN [result |-> "raised", attempts |-> attempt + 1, inits |-> started]
        ELSE scrape_signals_attempt(tries, attempt + 1, started)

scrape_signals(tries) == scrape_signals_attempt(tries, 0, 0)

\* the courses of the webdriver.Chrome() calls of one setup_selenium
ChromeCourses == [1..max_retries -> {"ok", "error"}]

\* what one attempt of scrape_signals can meet.  "nosignal": no check of the
\* page finds the word 'signal' (ValueError); "error": the browser raises.
\* No page is visited when no browser starts.
ScrapeTries ==
    { [chrome |-> c, page |-> p] :
        c \in ChromeCourses, p \in {"signal", "nosignal", "error"} }
    \ { [chrome |-> c, page |-> p] :
          c \in { d \in ChromeCourses : \A i \in 1..max_retries : d[i] = "error" },
          p \in {"signal", "nosignal"} }

RetryCalls ==
    { [fn |-> "send_telegram_message", done |-> FALSE, posts |-> o,
       out |-> Nil, again |-> Nil] : o \in [1..max_retries -> PostOutcomes] }
    \cup { [fn |-> "setup_selenium", done |-> FALSE, chrome |-> o,
            out |-> Nil, again |-> Nil] : o \in ChromeCourses }
    \cup { [fn |-> "scrape_signals", done |-> FALSE, tries |-> o,
            out |-> Nil, again |-> Nil] : o \in [1..max_retries -> ScrapeTries] }
    \cup { [fn |-> "fetch_4h", done |-> FALSE, symbol |-> y, answers |-> o,
            rows |-> 100, out |-> Nil, again |-> Nil] :
              y \in {PAIRS[1], PAIRS[Len(PAIRS)]}, o \in [1..RETRIES -> Answers] }

RetryInit ==
    /\ call \in RetryCalls
    /\ bot = IF call.fn = "fetch_4h" THEN "stock" ELSE "scraper"
    /\ pc = "call"
    /\ idx = 1
    /\ signals = <<>>
    /\ top = <<>>
    /\ sent = <<>>
    /\ cur = NoEval
    /\ net = NoNet
    /\ NoScraper

CallSend ==
    /\ pc = "call"
    /\ call.fn = "send_telegram_message"
    /\ Returned(send_telegram_message(call.posts), send_telegram_message(call.posts))

CallSetup ==
    /\ pc = "call"
    /\ call.fn = "setup_selenium"
    /\ Returned(setup_selenium(call.chrome), setup_selenium(call.chrome))

CallScrape ==
    /\ pc = "call"
    /\ call.fn = "scrape_signals"
    /\ Returned(scrape_signals(call.tries), scrape_signals(call.tries))

CallFetch4h ==
    /\ pc = "call"
    /\ call.fn = "fetch_4h"
    /\ Returned(fetch_4h(call.symbol, call.answers, call.rows),
                fetch_4h(call.symbol, call.answers, call.rows))

RetryNext ==
    \/ CallSend
    \/ CallSetup
    \/ CallScrape
    \/ CallFetch4h

RetrySpec == RetryInit /\ [][RetryNext]_vars

----------------------------------------------------------------------------
(* Free_Forex_Signal.py: the runs of main *)

CLEANUP_HOURS == 24

\* what the patterns of extract_signals capture from the page text: one
\* record per match, in page order
Matches ==
    { [pair |-> "EUR/USD", from |-> "10:00", till |-> "12:00", entry |-> "1.1050",
       action |-> a] : a \in {"Buy", "Sell"} }
    \cup { [pair |-> "GBP/USD", from |-> "10:00", till |-> "12:00",
            entry |-> "1.2700", action |-> "Buy"] }

\* md5 of pair + from + till + entry: matches that agree on the four fields
\* have one id, whatever their action and their levels
signal_id(match) == <<match.pair, match.from, match.till, match.entry>>

\* the list extract_signals returns at time t
extract_signals(page_text, t) ==
    [i \in 1..Len(page_text) |->
        [id |-> signal_id(page_text[i]), action |-> page_text[i].action,
         timestamp |-> t]]

\* the entries of a dict younger than CLEANUP_HOURS at time t
Cleanup(data, t) ==
    [k \in {j \in DOMAIN data : t - data[j].timestamp < CLEANUP_HOURS} |-> data[k]]

\* {**existing, **updated}
Merge(existing, updated) ==
    [k \in DOMAIN existing \cup DOMAIN updated |->
        IF k \in DOMAIN updated THEN updated[k] ELSE existing[k]]

\* the dict load_previous_signals returns from the file at time t (the file is
\* rewritten with it when entries were dropped); no file gives {}
load_previous_signals(file, t) == Cleanup(file, t)

\* the file save_signals writes at time t from the dict main hands over
save_signals(file, saved, t) ==
    Cleanup(Merge(load_previous_signals(file, t), saved), t)

\* main records a signal whatever its send came to
record_sent_always(previous, signal, delivered) ==
    Merge(previous, [k \in {signal.id} |-> signal])

\* lines 390-395 of main: previous_signals after the send of one new signal
record_sent(previous, signal, delivered) ==
    IF delivered THEN Merge(previous, [k \in {signal.id} |-> signal])
    ELSE previous

ScraperInit ==
    /\ bot = "scraper"
    /\ pc = "start"
    /\ idx = 1
    /\ signals = <<>>
    /\ top = <<>>
    /\ sent = <<>>
    /\ cur = NoEval
    /\ net = NoNet
    /\ call = NoCall
    /\ history = EmptyDict
    /\ utcnow = 0
    /\ run = 1
    /\ previous_signals = EmptyDict
    /\ new_signals = <<>>

\* lines 343-361: scrape_signals and extract_signals.  A scrape that raises
\* ends the run in main's handler (error notification, re-raise); a page
\* without a match ends it by the return of line 359, before any save.  The
\* first visit of scrape_signals finds the signals, or none of the three
\* does; the page text holds up to MaxMatches matches.
Scrape ==
    /\ pc = "start"
    /\ \E p \in {"signal", "nosignal"},
          page_text \in UNION { [1..n -> Matches] : n \in 0..MaxMatches } :
         IF scrape_signals([i \in 1..max_retries |->
                               [chrome |-> [j \in 1..max_retries |-> "ok"],
                                page |-> p]]).result = "raised"
         THEN pc' = "crashed" /\ signals' = signals
         ELSE /\ signals' = extract_signals(page_text, utcnow)
              /\ pc' = IF page_text = <<>> THEN "returned" ELSE "load"
    /\ UNCHANGED <<bot, idx, top, sent, cur, net, call, history, utcnow, run, previous_signals, new_signals>>

\* lines 367-377: the history is loaded and the new signals are picked
Load ==
    /\ pc = "load"
    /\ history' = load_previous_signals(history, utcnow)
    /\ previous_signals' = load_previous_signals(history, utcnow)
    /\ new_signals' = SelectSeq(signals,
                         LAMBDA sig : sig.id \notin DOMAIN load_previous_signals(history, utcnow))
    /\ idx' = 1
    /\ pc' = "process"
    /\ UNCHANGED <<bot, signals, top, sent, cur, net, call, utcnow, run>>

\* lines 384-395: one pass of the loop over new_signals; sent lists the ids
\* delivered in this run
Process ==
    /\ pc = "process"
    /\ idx <= Len(new_signals)
    /\ \E posts \in [1..max_retries -> PostOutcomes] :
         LET delivered == send_telegram_message(posts).result = "True"
         IN  /\ previous_signals' = record_sent(previous_signals, new_signals[idx], delivered)
             /\ sent' = IF delivered THEN Append(sent, new_signals[idx].id) ELSE sent
    /\ idx' = idx + 1
    /\ UNCHANGED <<bot, pc, signals, top, cur, net, call, history, utcnow, run, new_signals>>

\* line 403
Save ==
    /\ pc = "process"
    /\ idx > Len(new_signals)
    /\ history' = save_signals(history, previous_signals, utcnow)
    /\ pc' = "saved"
    /\ UNCHANGED <<bot, idx, signals, top, sent, cur, net, call, utcnow, run, previous_signals, new_signals>>

\* the script is started again, 1 or 23 hours after the start of this run
NextRun ==
    /\ pc \in {"saved", "returned", "crashed"}
    /\ run < MaxRuns
    /\ \E d \in {1, 23} : utcnow' = utcnow + d
    /\ run' = run + 1
    /\ pc' = "start"
    /\ idx' = 1
    /\ signals' = <<>>
    /\ sent' = <<>>
    /\ previous_signals' = EmptyDict
    /\ new_signals' = <<>>
    /\ UNCHANGED <<bot, top, cur, net, call, history>>

ScraperNext ==
    \/ Scrape
    \/ Load
    \/ Process
    \/ Save
    \/ NextRun

ScraperSpec == ScraperInit /\ [][ScraperNext]_vars

----------------------------------------------------------------------------
(* Properties of the classifiers *)

Returns(fn) == pc = "returned" /\ call.fn = fn

\* the bullish pullback rule as the claim words it
PullbackBuyFires ==
    /\ Gt(call.last.close, call.last.ema200)
    /\ Gt(call.last.ema50, call.last.ema200)
    /\ call.last.adx > 30
    /\ call.last.close > call.last.ema50
    /\ call.prev.close < call.prev.ema50

PullbackBuyCandidate(c) ==
    /\ IsSignal(c)
    /\ c.type = "TREND FOLLOWING"
    /\ c.direction = "BUY"
    /\ c.entry = call.last.close * 1000
    /\ c.stop_loss = call.last.ema50 * 1000 - call.last.atr * 1200
    /\ c.stop_loss < c.entry
    /\ c.take_profit = <<call.last.close * 1020, call.last.close * 1035,
                         call.last.close * 1050>>
    /\ c.take_profit[1] < c.take_profit[2]
    /\ c.take_profit[2] < c.take_profit[3]

\* C11: whenever the bullish pullback rule fires on the primary frame,
\* detect_trend_following_signal returns a TREND FOLLOWING / BUY candidate
\* with entry = last close, stop_loss = fast average - 1.2 x ATR strictly
\* below the entry and the three ascending take-profit levels entry x 1.02,
\* 1.035, 1.05, with or without confirmation data.
C11_PullbackBuyLevels ==
    (Returns("detect_trend_following_signal") /\ PullbackBuyFires)
        => PullbackBuyCandidate(call.out)

\* the scenario of C12: the bullish pullback rule fired on a row with
\* ADX = 35 and RSI = 55
PullbackAdx35Rsi55 ==
    /\ Returns("detect_trend_following_signal")
    /\ PullbackBuyFires
    /\ call.last.adx = 35
    /\ call.last.rsi = 55

CandidateFields ==
    {"symbol", "direction", "confidence", "entry", "stop_loss", "take_profit"}

FiredRule ==
    IF call.fn = "detect_trend_following_signal"
    THEN TrendRule(call.last, call.prev, HasConfLast(call.confRows), call.conf_last)
    ELSE ReversalRule(call.last, HasConfLast(call.confRows), call.conf_last)

\* the confirmation row agrees with the direction, in the words of C19
ConfirmationAgrees(rule, conf_last) ==
    IF rule.type \in {"TREND FOLLOWING", "BREAKOUT", "BREAKDOWN"}
    THEN \/ rule.direction = "BUY" /\ conf_last.close > conf_last.ema50
                                   /\ conf_last.rsi > 40
         \/ rule.direction = "SELL" /\ conf_last.close < conf_last.ema50
                                    /\ conf_last.rsi < 60
    ELSE \/ rule.direction = "BUY" /\ conf_last.rsi > 30
                                   /\ conf_last.close * 1000 < conf_last.bb_lower * 1005
         \/ rule.direction = "SELL" /\ conf_last.rsi < 70
                                    /\ conf_last.close * 1000 > conf_last.bb_upper * 995

\* the four primary terms of the score, in halves, for the type string the
\* classifier passes to calculate_confidence
PrimaryScore2(rule, last) ==
    LET signal_type == IF rule.type = "REVERSAL" THEN rule.direction ELSE rule.type
    IN  adx_score2(last) + rsi_score2(signal_type, last) + ema_score2(last)
        + volatility_part2(signal_type, last)

\* C19: when the last row of the confirmation timeframe is available and a
\* rule fired, the candidate is returned, and its confidence is the primary
\* score plus exactly 10 if the confirmation row agrees with the direction
\* and plus 0 otherwise.
C19_ConfirmationAddsTenOrZero ==
    (pc = "returned"
     /\ call.fn \in {"detect_trend_following_signal", "detect_reversal_signal"}
     /\ HasConfLast(call.confRows)
     /\ IsSignal(FiredRule)) =>
        /\ IsSignal(call.out)
        /\ call.out.confidence =
              Min(100, IntOfHalves(PrimaryScore2(FiredRule, call.last)
                                   + IF ConfirmationAgrees(FiredRule, call.conf_last)
                                     THEN 20 ELSE 0))

ReversalBuyCase ==
    /\ call.last.close <= call.last.bb_lower
    /\ call.last.rsi < 35
    /\ call.last.adx > 20
    /\ HasConfLast(call.confRows)
    /\ call.conf_last.rsi > 30

ReversalSellCase ==
    /\ ~ReversalBuyCase
    /\ call.last.close >= call.last.bb_upper
    /\ call.last.rsi > 65
    /\ call.last.adx > 20
    /\ HasConfLast(call.confRows)
    /\ call.conf_last.rsi < 70

IsReversal(c, direction) ==
    IsSignal(c) /\ c.type = "REVERSAL" /\ c.direction = direction

\* C20: detect_reversal_signal returns a REVERSAL / BUY candidate exactly in
\* the BUY case (close <= lower band, RSI < 35, ADX > 20, confirmation RSI
\* > 30), a REVERSAL / SELL candidate exactly in the SELL case (not the BUY
\* case, close >= upper band, RSI > 65, ADX > 20, confirmation RSI < 70),
\* and nothing otherwise.
C20_ReversalExactlyWhenConditions ==
    Returns("detect_reversal_signal") =>
        /\ ReversalBuyCase <=> IsReversal(call.out, "BUY")
        /\ ReversalSellCase <=> IsReversal(call.out, "SELL")
        /\ (~ReversalBuyCase /\ ~ReversalSellCase) => ~IsSignal(call.out)

\* the direction the 1h history of the call classifies to on its own: "none"
\* without a usable frame (no data, short history, indicators failed or
\* undefined, fewer than two rows left) or without a signal on its last row
OneHourDirection ==
    IF call.in1h.rows = NoRows \/ call.in1h.rows < MinBars
       \/ call.in1h.fault \/ call.in1h.allNaN
       \/ call.in1h.rows - (VolMaWindow - 1) < 2
    THEN "none"
    ELSE IF long_conditions(call.in1h.row) THEN "long"
    ELSE IF short_conditions(call.in1h.row) THEN "short"
    ELSE "none"

\* the direction of the primary candidate of the call
PrimaryDirection == IF long_conditions(call.row) THEN "long" ELSE "short"

\* C21: in the Commodity scanner the confirmation bonus is 10 exactly when the
\* 1h frame, classified on its own by detect_trading_signal, gives a signal of
\* the primary candidate's direction, and 0 in every other case; the candidate
\* keeps the direction and the base confidence of the primary classification.
C21_BonusOnlyOnSameDirection ==
    (Returns("scan_assets") /\ IsSignal(call.out.signal)) =>
        /\ call.out.bonus = IF OneHourDirection = PrimaryDirection
                            THEN 10 ELSE 0
        /\ call.out.signal.direction = PrimaryDirection
        /\ call.out.signal.confidence
              = base_confidence(call.row, call.asset) + call.out.bonus

\* a short candidate confirmed by a short 1h signal
C21_Witness ==
    /\ Returns("scan_assets")
    /\ IsSignal(call.out.signal)
    /\ call.out.signal.direction = "short"
    /\ OneHourDirection = "short"
    /\ call.out.bonus = 10

\* C22: each component of the Forex confidence stays within its weight: the
\* ADX component is clamp(0, 30, (adx - 20) x 1.5), the oscillator component
\* lies in [0, 25], the moving-average component is 10 or 20, the volatility
\* component lies in [0, 15], the confirmation component is 0 or 10, and the
\* returned total lies in [0, 100].  (Scores in halves of a point.)
C22_ComponentsWithinWeights ==
    Returns("calculate_confidence") =>
        /\ call.out.adx_score2 = Max(0, Min(60, (call.last.adx - 20) * 3))
        /\ call.out.adx_score2 \in 0..60
        /\ call.out.rsi_score2 \in 0..50
        /\ call.out.ema_score2 \in {20, 40}
        /\ call.out.volatility2 \in 0..30
        /\ call.out.confirmation2 \in {0, 20}
        /\ ~call.out.raised => call.out.value \in 0..100

\* close, fast and slow average ordered in the direction of the candidate
AlignedWithDirection ==
    \/ /\ call.direction = "BUY"
       /\ Gt(call.last.close, call.last.ema50)
       /\ Gt(call.last.ema50, call.last.ema200)
    \/ /\ call.direction = "SELL"
       /\ Lt(call.last.close, call.last.ema50)
       /\ Lt(call.last.ema50, call.last.ema200)

\* C23: the moving-average component of the Forex confidence is 20 only when
\* close, fast and slow average are ordered in the candidate's own direction
\* and 10 otherwise; a BUY candidate whose averages are in bearish order gets
\* 10.  (Scores in halves of a point.)
C23_AlignmentInOwnDirection ==
    Returns("calculate_confidence") =>
        call.out.ema_score2 = IF AlignedWithDirection THEN 40 ELSE 20

TrendFamily == {"TREND FOLLOWING", "BREAKOUT", "BREAKDOWN"}

\* the oscillator score the claim assigns to the candidate of the call, in
\* halves of a point
DirectionalRsiScore2 ==
    IF call.regime \in TrendFamily
    THEN IF call.direction = "BUY"
         THEN Min(50, (40 - Max(call.last.rsi, 30)) * 5)
         ELSE Min(50, (Min(call.last.rsi, 70) - 60) * 5)
    ELSE IF call.direction = "BUY"
         THEN Min(50, (35 - call.last.rsi) * 5)
         ELSE Min(50, (call.last.rsi - 65) * 5)

\* C24: the oscillator component of the Forex confidence follows the regime
\* and the direction of the candidate: the bullish formula
\* min(25, (40 - max(rsi, 30)) x 2.5) for a trend or breakout BUY, the bearish
\* formula min(25, (min(rsi, 70) - 60) x 2.5) for a trend SELL,
\* min(25, (35 - rsi) x 2.5) for a reversal BUY and min(25, (rsi - 65) x 2.5)
\* for a reversal SELL.
C24_OscillatorByRegimeAndDirection ==
    Returns("calculate_confidence") =>
        call.out.rsi_score2 = DirectionalRsiScore2

\* C25: the volatility component is added as it is for every candidate of the
\* trend family (TREND FOLLOWING, BREAKOUT, BREAKDOWN) and as 15 minus itself
\* only for REVERSAL candidates; a BREAKDOWN candidate gets the oscillator
\* component a BREAKOUT candidate would get on the same row.
C25_BreakdownScoredAsTrend ==
    Returns("calculate_confidence") =>
        /\ call.out.volatility2
              = IF call.regime \in TrendFamily
                THEN Min(30, call.last.atr \div 5)
                ELSE 30 - Min(30, call.last.atr \div 5)
        /\ call.regime = "BREAKDOWN" =>
              call.out.rsi_score2 = Min(50, (Min(call.last.rsi, 70) - 60) * 5)

\* the levels of candidate c lie on the sides its direction asks for
LevelsOnTheirSides(c) ==
    IF c.direction \in {"BUY", "LONG"}
    THEN /\ c.stop_loss < c.entry
         /\ c.entry < c.take_profit[1]
         /\ c.take_profit[1] < c.take_profit[2]
         /\ c.take_profit[2] < c.take_profit[3]
    ELSE /\ c.stop_loss > c.entry
         /\ c.entry > c.take_profit[1]
         /\ c.take_profit[1] > c.take_profit[2]
         /\ c.take_profit[2] > c.take_profit[3]

\* the ATR of the last row of the call
CallAtr == IF call.fn = "scan" THEN call.last.ATR ELSE call.last.atr

PassBase == call.out.signal.confidence - call.out.bonus

\* both the volume boost and the ADX boost apply to the 4h row of the pass
BothBoosts ==
    /\ call.row.vol_ratio10 > volume_filter10(call.asset)
    /\ call.row.adx > 25

\* C30: in the Commodity scanner the base confidence of a LONG candidate is
\* 45, 65 or 85 and that of a SHORT candidate is 15, 35 or 55; a SHORT
\* candidate reaches the floor of 50 only when both the volume boost and the
\* ADX boost apply, and a LONG candidate reaches it with the confirmation
\* bonus alone.
C30_CommodityBaseConfidences ==
    (Returns("scan_assets") /\ IsSignal(call.out.signal)) =>
        /\ call.out.signal.direction = "long" => PassBase \in {45, 65, 85}
        /\ call.out.signal.direction = "short" => PassBase \in {15, 35, 55}
        /\ (call.out.signal.direction = "short" /\ call.out.added = 1)
              => BothBoosts
        /\ (call.out.signal.direction = "long" /\ call.out.bonus = 10)
              => call.out.added = 1

\* a LONG candidate with neither boost that is appended on its confirmation
\* bonus
C30_Witness ==
    /\ Returns("scan_assets")
    /\ IsSignal(call.out.signal)
    /\ call.out.signal.direction = "long"
    /\ PassBase = 45
    /\ call.out.bonus = 10
    /\ call.out.added = 1

\* the first attempt of a course that ends the loop, 0 if none does
FirstIn(course, ending) ==
    IF \E i \in DOMAIN course : course[i] \in ending
    THEN CHOOSE i \in DOMAIN course :
            /\ course[i] \in ending
            /\ \A j \in 1..(i - 1) : course[j] \notin ending
    ELSE 0

\* an attempt of scrape_signals succeeds when a browser starts and a check of
\* the page finds the word 'signal'
ScrapeCourse ==
    [i \in 1..max_retries |->
        IF (\E j \in 1..max_retries : call.tries[i].chrome[j] = "ok")
           /\ call.tries[i].page = "signal"
        THEN "ok" ELSE "failed"]

\* the loop made as many attempts as it takes to reach the first one that
\* ends it, all of them when none does
StopsAt(first, attempts) ==
    /\ attempts <= 3
    /\ attempts = IF first = 0 THEN 3 ELSE first

\* C29: every retry loop makes at most 3 attempts per call, stops at its first
\* success, and when all attempts fail ends with its failure outcome: the
\* exception for setup_selenium and scrape_signals, False for
\* send_telegram_message, an empty frame for fetch_4h.
C29_RetryLoopsBounded ==
    /\ Returns("send_telegram_message") =>
          LET first == FirstIn(call.posts, {"ok"})
          IN  /\ StopsAt(first, call.out.attempts)
              /\ call.out.result = IF first = 0 THEN "False" ELSE "True"
    /\ Returns("setup_selenium") =>
          LET first == FirstIn(call.chrome, {"ok"})
          IN  /\ StopsAt(first, call.out.attempts)
              /\ call.out.result = IF first = 0 THEN "raised" ELSE "driver"
    /\ Returns("scrape_signals") =>
          LET first == FirstIn(ScrapeCourse, {"ok"})
          IN  /\ StopsAt(first, call.out.attempts)
              /\ call.out.result = IF first = 0 THEN "raised" ELSE "page_text"
              /\ call.out.inits <= 3 * call.out.attempts
    /\ Returns("fetch_4h") =>
          LET first == FirstIn(call.answers, {"data", "nodata"})
          IN  /\ StopsAt(first, call.out.requests)
              /\ (first # 0 /\ call.answers[first] = "data") => call.out.df = call.rows
              /\ first = 0 => (call.out.df = 0 /\ ~call.out.raised)

\* a POST that fails once and then succeeds: the loop stops at the second
\* attempt although a third would succeed too
C29_Witness ==
    /\ Returns("send_telegram_message")
    /\ call.posts = <<"RequestException", "ok", "ok">>
    /\ call.out.result = "True"
    /\ call.out.attempts = 2

\* the history file holds an entry for id younger than 24 hours
FreshInHistory(id) ==
    /\ id \in DOMAIN history
    /\ utcnow - history[id].timestamp < CLEANUP_HOURS

\* C27: in the scraper a signal id is sent to Telegram at most once: a
\* delivery is never of an id already delivered in the same run, nor of an id
\* that has an entry younger than 24 hours in the history file.
C27_IdSentAtMostOnce ==
    [][Len(sent') > Len(sent) =>
          /\ \A i \in DOMAIN sent : sent[i] # sent'[Len(sent')]
          /\ ~FreshInHistory(sent'[Len(sent')])]_vars

\* the ids delivered in this run
SentIds == { sent[i] : i \in DOMAIN sent }

\* the ids of the new signals of this run
NewIds == { new_signals[i].id : i \in DOMAIN new_signals }

\* C28: in the scraper the history file saved by a run holds a signal only if
\* it was in the history before or was delivered in this run; a new signal
\* whose send failed is not in the saved file, and a run sends (or tries to
\* send) every scraped signal the history does not hold before it saves.
C28_HistoryOnlyDeliveredOrKnown ==
    [][/\ (pc = "process" /\ pc' = "saved") =>
             /\ DOMAIN history' \subseteq DOMAIN history \cup SentIds
             /\ \A id \in NewIds \ SentIds : id \notin DOMAIN history'
             /\ idx > Len(new_signals)
       /\ (pc = "load" /\ pc' = "process") =>
             \A i \in DOMAIN signals :
                 signals[i].id \notin DOMAIN history' => signals[i].id \in NewIds'
      ]_vars

\* a later run whose history was saved with one new signal delivered and
\* another, whose send failed, left out
C28_Witness ==
    /\ pc = "saved"
    /\ run > 1
    /\ \E id \in NewIds : id \in SentIds /\ id \in DOMAIN history
    /\ \E id \in NewIds : id \notin SentIds /\ id \notin DOMAIN history

----------------------------------------------------------------------------
(* Properties of the requests *)

\* C13 as stated: in one cycle at most one request per instrument per
\* timeframe is issued, also when a request fails; a failed request is never
\* issued again.
C13_OneRequestPerTimeframe ==
    /\ net.primary <= 1
    /\ net.confirmation <= 1
    /\ net.retried = 0

\* C13 amended: the Commodity and Forex scanners issue one primary request
\* per instrument and at most one confirmation request, failed or not; the
\* Stock scanner issues its request again after a request error, up to
\* RETRIES = 3 requests per instrument, every one but the last being a
\* failed one.
C13_OneRequestUnlessStockRetries ==
    /\ bot \in {"commodity", "forex"} =>
          /\ net.primary <= 1
          /\ net.confirmation <= 1
          /\ net.retried = 0
    /\ bot = "stock" =>
          /\ net.primary <= RETRIES
          /\ net.confirmation = 0
          /\ net.retried \in {net.primary - 1, net.primary}
          /\ net.retried = net.primary => net.primary \in {0, RETRIES}

\* C13 witness: three requests were issued for one Stock symbol
C13_Witness ==
    /\ bot = "stock"
    /\ pc = "scan"
    /\ net.primary = RETRIES
    /\ net.retried = RETRIES - 1

\* C14: every scan cycle reaches its ranking step and terminates, even with
\* a provider that never answers.
C14_CycleTerminates == <>(pc \in {"done", "crashed"})

====
